---- MODULE Spec2Model ----
(***************************************************************************)
(* A model of PhoenixApiClient (src/index.js): the session store, the      *)
(* OAuth bootstrap, the retry policy wrapped around every request and the  *)
(* pagination aggregator.                                                  *)
(*                                                                         *)
(* Every async function of the class is a frame on the call stack of a     *)
(* task (a chain of awaits).  A task runs until it awaits the network or a *)
(* setTimeout; only then may another event be handled, as in the event     *)
(* loop of the browser.  The server, the clock and the caller are the      *)
(* environment.                                                            *)
(***************************************************************************)
EXTENDS Integers, Sequences, FiniteSets, Bags, TLC

\* ------------------------------------------------------------------ bounds
\* largest handle_server_error option explored (0 stands for false)
MaxHse == 2
\* the service answers at most this many 429 / 5xx in a run
MaxFail == MaxHse + 1
\* the same, in the runs of set_user, sign_out and the expiration timer
MaxSignOutFail == 1
\* largest collection an honest listing endpoint holds
MaxItems == 1200
\* largest page and largest total an inconsistent listing endpoint reports
MaxPage == 2
MaxTotal == 3

\* --------------------------------------------------------- program constants
SKEW == 10000
MAX_TIMEOUT == 2147483647
SERVER_ERROR_DELAY == 500
MS_PER_SECOND == 1000
PAGE_LIMIT == 500
DEFAULT_LIMIT == 25
DEFAULT_RETRY_AFTER == 1

\* ------------------------------------------------------------- JS values
\* undefined / null where a number is expected
Undef == 0 - 1
\* shapes of a 429 payload: no @error.@rateLimit object at all, or the
\* object without a Retry-After key; any other value is the number of seconds
RaNoObj == 0 - 2
RaAbsent == 0 - 1

TaskIds == {"main", "timer"}
Ops == {"get_item", "delete_item", "download_item", "replace_item",
        "patch_item", "create_item", "get_list"}

\* Instants are milliseconds counted from an origin 2^31 ms after the epoch,
\* so that both the epoch (JS 0) and an expiration more than MAX_TIMEOUT ahead
\* of the clock are 32-bit integers.  Differences of instants are what they
\* are in the program.
Epoch == 0 - MAX_TIMEOUT - 1
\* the instant the behaviour starts at: 100 s after the epoch
Now0 == Epoch + 100 * MS_PER_SECOND

NoVal ==
  [k |-> "undefined", status |-> 0, ra |-> RaAbsent, rid |-> 0,
   hasItems |-> FALSE, items |-> <<>>, offset |-> Undef, total |-> Undef,
   limit |-> Undef, voip_id |-> Undef, expires_at |-> Undef]
TypeErrorV == [NoVal EXCEPT !.k = "TypeError"]
TrueV == [NoVal EXCEPT !.k = "true"]
FalseV == [NoVal EXCEPT !.k = "false"]
NullV == [NoVal EXCEPT !.k = "null"]
\* call_api's substitute response {data: {}}
EmptyResp == [NoVal EXCEPT !.k = "resp"]

NoReg == [kind |-> "none", v |-> NoVal]
Ret(v) == [kind |-> "ret", v |-> v]
Throw(v) == [kind |-> "throw", v |-> v]

\* a token is the words of its string: "Bearer T" is <<"Bearer", "T">>
NoToken == <<>>
NullUser == [id |-> Undef, token |-> NoToken, expiration |-> Undef]
JsFalse == [isBool |-> TRUE, n |-> 0]
JsTrue == [isBool |-> TRUE, n |-> 1]
JsNum(n) == [isBool |-> FALSE, n |-> n]
\* a test that is never met
Truthy_Never(v) == FALSE
\* if (this.uses_token): false and 0 are falsy
Truthy(v) == v.n # 0

NoFrame ==
  [fn |-> "", pc |-> "", op |-> "", attempt |-> 1, err |-> NoVal,
   query |-> <<>>, limit |-> 0, offset |-> 0, global |-> FALSE,
   token |-> NoToken, uses_token |-> JsFalse, flag |-> FALSE, branch |-> "",
   all |-> <<>>, res |-> NoVal, kind |-> "", sess |-> NullUser]
NoReq ==
  [kind |-> "", method |-> "", query |-> <<>>, body |-> "", auth |-> NoToken,
   account |-> Undef,
   at |-> 0]
IdleTask ==
  [stack |-> <<>>, reg |-> NoReg, wait |-> "idle", wake |-> 0,
   req |-> NoReq, reqs |-> <<>>, resps |-> <<>>, events |-> <<>>,
   call |-> "", arg |-> NullUser, ut |-> JsFalse]

VARIABLES
  options,             \* this.options
  listeners,           \* the events a callback is registered for
  user,                \* this.user
  token,               \* this.token
  uses_token,          \* this.uses_token
  expiration_timeout,  \* this.expiration_timeout
  id_token,            \* this._id_token
  decoded_id_token,    \* this._decoded_id_token
  storage,             \* sessionStorage (tab) and localStorage (browser)
  timers,              \* armed setTimeout(handle_expired_session) deadlines
  now,                 \* Date.now()
  location,            \* document.location: fragment and page
  tasks,               \* the async call chains in flight
  server               \* what the remote service holds and answers

vars == <<options, listeners, user, token, uses_token, expiration_timeout,
          id_token, decoded_id_token, storage, timers, now, location, tasks, server>>
\* ------------------------------------------------------------ small helpers
Top(t) == Head(tasks[t].stack)
Active(t) == tasks[t].stack # <<>> /\ tasks[t].wait = "run"
At(t, fn, pc) == Active(t) /\ Top(t).fn = fn /\ Top(t).pc = pc
NoneRunning == \A t \in TaskIds : tasks[t].wait # "run"
Free(t) == tasks[t].wait \in {"idle", "done"}
\* one logical call of the application is followed per behaviour
Fresh(t) == tasks[t].wait = "idle"
Registered(ev) == ev \in listeners

\* the frame on top returns or throws: its caller resumes with the outcome
PopWith(tk, o) ==
  LET s == Tail(tk.stack)
  IN [tk EXCEPT !.stack = s, !.reg = o,
                !.wait = IF s = <<>> THEN "done" ELSE "run"]
Push(tk, f) == [tk EXCEPT !.stack = <<f>> \o @, !.reg = NoReg]
SetTop(tk, f) == [tk EXCEPT !.stack = <<f>> \o Tail(@)]
\* a client whose callbacks are never invoked
Notify_Never(tk, ev, arg) == tk
\* this.listeners[ev] && this.listeners[ev](arg): the log keeps the event and
\* the argument the callback received
Notify(tk, ev, arg) ==
  IF Registered(ev)
  THEN [tk EXCEPT !.events = Append(@, [ev |-> ev, arg |-> arg])]
  ELSE tk
Sleep(tk, pc, delay) ==
  [SetTop(tk, [Head(tk.stack) EXCEPT !.pc = pc, !.err = tk.reg.v])
     EXCEPT !.wait = "sleep", !.wake = now + delay, !.reg = NoReg]
Send(tk, r) ==
  [tk EXCEPT !.wait = "net", !.req = r, !.reqs = Append(@, r), !.reg = NoReg]

\* the value of the last `name` parameter of a query string, or dflt
Param(query, name, dflt) ==
  LET hits == {i \in 1..Len(query) : query[i].k = name}
  IN IF hits = {} THEN dflt
     ELSE query[CHOOSE i \in hits : \A j \in hits : j <= i].v
Min(a, b) == IF a < b THEN a ELSE b

\* ------------------------------------------------------- the retry policy
\* err.data["@error"]["@rateLimit"]["Retry-After"] || 1
RetryAfterSeconds(ra) ==
  IF ra = RaAbsent \/ ra = 0 THEN DEFAULT_RETRY_AFTER ELSE ra
\* a delay handed to setTimeout in seconds instead of milliseconds
RateLimitDelay_Unscaled(ra) == RetryAfterSeconds(ra)
\* setTimeout(..., seconds * 1000)
RateLimitDelay(ra) == RetryAfterSeconds(ra) * MS_PER_SECOND
\* a 429 branch that does not consult the option
RateLimited_Always(status) == status = 429
\* err.status === 429 && this.options.handle_rate_limit
RateLimited(status) == status = 429 /\ options.handle_rate_limit
\* a 5xx branch that does not count the attempts
ServerErrorRetry_Unbounded(status, attempt) ==
  /\ status >= 500
  /\ status <= 599
  /\ options.handle_server_error # 0
\* err.status >= 500 && err.status <= 599 && this.options.handle_server_error
\*   && _attempt <= this.options.handle_server_error
ServerErrorRetry(status, attempt) ==
  /\ status >= 500
  /\ status <= 599
  /\ options.handle_server_error # 0
  /\ attempt <= options.handle_server_error
\* (this.expiration_timeout - Date.now() - 10000) < 0, with Date.now() + 10000
\* moved to the right-hand side
session_expired == expiration_timeout < now + SKEW
\* const err = e.response: axios rejects with an error that carries the
\* response when the server answered; anything else has no response
HasResponse(e) == e.k = "axios" /\ e.status # 0
Response(e) == [e EXCEPT !.k = "resp"]

\* _getItem / _setItem / _removeItem: the store session_scope selects
Scope == IF options.session_scope = "tab" THEN "tab" ELSE "browser"
getItem(key) == storage[Scope][key]
setItem(st, key, val) == [st EXCEPT ![Scope][key] = val]
\* (this.user && this.user["token"]) || token_provided ? {Authorization} : {}
phoenix_auth_headers(tok) ==
  IF tok # NoToken THEN tok
  ELSE IF user # NullUser /\ user.token # NoToken THEN user.token
  ELSE NoToken

\* ------------------------------------------------------------- the session
Ids == {1, 2}
AllEvents == {"logged-out", "session-expired", "error"}
NoIdTokens == [i \in Ids |-> ""]
EmptyStore ==
  [session |-> NullUser, state |-> "", idt |-> NoIdTokens, dec |-> NoIdTokens]
\* get id_token(): the field, else the cached copy of the current user
id_token_get ==
  IF id_token # "" THEN id_token
  ELSE IF user # NullUser /\ user.id \in Ids /\ getItem("idt")[user.id] # ""
       THEN getItem("idt")[user.id]
       ELSE ""
\* post_sign_out: this._removeItem(this.options.session_name)
StoreAfterSignOut(st) == setItem(st, "session", NullUser)
\* openid_endsession: id_token = null, decoded_id_token = null remove both
\* cached copies of the current user
StoreAfterEndSession(st) ==
  LET a == setItem(st, "idt", [getItem("idt") EXCEPT ![user.id] = ""])
  IN [a EXCEPT ![Scope]["dec"][user.id] = ""]

clientVars ==
  <<user, token, uses_token, expiration_timeout, id_token, decoded_id_token,
    storage, timers, location>>
envVars == <<options, listeners, server>>

\* ------------------------------------------------------ resource operations
Method(op) ==
  CASE op = "delete_item" -> "delete"
    [] op = "replace_item" -> "put"
    [] op = "patch_item" -> "patch"
    [] op = "create_item" -> "post"
    [] OTHER -> "get"
\* the body handed to axios: the caller's data for put, patch and post
\* (body || ''), none for get and delete
Body(op) ==
  IF op \in {"replace_item", "patch_item", "create_item"} THEN "data" ELSE ""
\* get_list: if (limit && _attempt === 1) uri += "?limit=" + limit
\*           [+ "&offset=" + offset]
ListQuery(f) ==
  IF f.op = "get_list" /\ f.limit # 0 /\ f.attempt = 1
  THEN f.query \o <<[k |-> "limit", v |-> f.limit]>>
       \o (IF f.offset # 0 THEN <<[k |-> "offset", v |-> f.offset]>> ELSE <<>>)
  ELSE f.query
OpFrame(op, limit, offset, global) ==
  [NoFrame EXCEPT !.fn = "op", !.pc = "try", !.op = op, !.limit = limit,
                  !.offset = offset, !.global = global]

\* the body of the try block up to `await this.call_api(...)`
OpTry(t) ==
  /\ At(t, "op", "try")
  /\ LET f == Top(t)
         q == ListQuery(f)
         callee == [NoFrame EXCEPT !.fn = "call_api", !.pc = "try",
                                   !.op = f.op, !.query = q,
                                   !.global = f.global,
                                   !.kind = IF f.op = "get_list"
                                            THEN "list" ELSE "api"]
     IN tasks' = [tasks EXCEPT ![t] =
                    Push(SetTop(@, [f EXCEPT !.query = q, !.pc = "await"]),
                         callee)]
  /\ UNCHANGED <<clientVars, envVars, now>>

\* call_api up to the axios call: _phoenix_url reads this.user["id"] unless
\* the uri is global, which throws inside the try when there is no user
CallApiTry(t) ==
  /\ At(t, "call_api", "try")
  /\ LET f == Top(t)
         tk == SetTop(tasks[t], [f EXCEPT !.pc = "await"])
         r == [kind |-> f.kind, method |-> Method(f.op), query |-> f.query,
               body |-> Body(f.op),
               auth |-> phoenix_auth_headers(f.token),
               account |-> IF f.global THEN Undef ELSE user.id, at |-> now]
     IN tasks' = [tasks EXCEPT ![t] =
                    IF ~f.global /\ user = NullUser
                    THEN [tk EXCEPT !.reg = Throw(TypeErrorV)]
                    ELSE Send(tk, r)]
  /\ UNCHANGED <<clientVars, envVars, now>>

\* call_api after the axios call settled: the return, or the catch block
CallApiDone(t) ==
  /\ At(t, "call_api", "await")
  /\ tasks[t].reg.kind # "none"
  /\ LET tk == tasks[t]
         e == tk.reg.v
     IN tasks' = [tasks EXCEPT ![t] =
          IF tk.reg.kind = "ret" THEN PopWith(tk, tk.reg)
          ELSE IF ~HasResponse(e) THEN PopWith(tk, Throw(TypeErrorV))
          ELSE IF e.status = 401 /\ session_expired
          THEN Push(SetTop(tk, [Top(t) EXCEPT !.pc = "expired"]),
                    [NoFrame EXCEPT !.fn = "handle_expired_session",
                                    !.pc = "start"])
          ELSE PopWith(Notify(tk, "error", Response(e)), Throw(e))]
  /\ UNCHANGED <<clientVars, envVars, now>>

\* call_api: await this.handle_expired_session(); return {data: {}}
CallApiExpired(t) ==
  /\ At(t, "call_api", "expired")
  /\ tasks[t].reg.kind # "none"
  /\ tasks' = [tasks EXCEPT ![t] = PopWith(@, Ret(EmptyResp))]
  /\ UNCHANGED <<clientVars, envVars, now>>

\* the op after call_api settled: `return item.data`, or the catch block
OpDone(t) ==
  /\ At(t, "op", "await")
  /\ tasks[t].reg.kind # "none"
  /\ LET tk == tasks[t]
         f == Top(t)
         e == tk.reg.v
     IN tasks' = [tasks EXCEPT ![t] =
          IF tk.reg.kind = "ret"
          THEN PopWith(tk, Ret([e EXCEPT !.k = IF f.op = "get_list"
                                               THEN "list" ELSE "data"]))
          ELSE IF ~HasResponse(e) THEN PopWith(tk, Throw(TypeErrorV))
          ELSE IF RateLimited(e.status)
          THEN IF e.ra = RaNoObj THEN PopWith(tk, Throw(TypeErrorV))
               ELSE Sleep([tk EXCEPT !.reg = Throw(Response(e))],
                          "sleep429", RateLimitDelay(e.ra))
          ELSE IF ServerErrorRetry(e.status, f.attempt)
          THEN Sleep([tk EXCEPT !.reg = Throw(Response(e))],
                     "sleep5xx", SERVER_ERROR_DELAY)
          ELSE PopWith(tk, Throw(Response(e)))]
  /\ UNCHANGED <<clientVars, envVars, now>>

\* after the awaited retry settled: the 429 branch returns what the retry
\* returned; the 5xx branch has no return and falls through to `throw err`
OpRetryDone(t) ==
  /\ Active(t)
  /\ Top(t).fn = "op"
  /\ Top(t).pc \in {"retry429", "retry5xx"}
  /\ tasks[t].reg.kind # "none"
  /\ LET tk == tasks[t]
         f == Top(t)
     IN tasks' = [tasks EXCEPT ![t] =
          IF tk.reg.kind = "throw" \/ f.pc = "retry429"
          THEN PopWith(tk, tk.reg)
          ELSE PopWith(tk, Throw(f.err))]
  /\ UNCHANGED <<clientVars, envVars, now>>

\* ------------------------------------------------------------------ sign out
\* handle_expired_session: await this.sign_out(true)
HesStart(t) ==
  /\ At(t, "handle_expired_session", "start")
  /\ tasks' = [tasks EXCEPT ![t] =
       Push(SetTop(@, [Top(t) EXCEPT !.pc = "after"]),
            [NoFrame EXCEPT !.fn = "sign_out", !.pc = "start", !.flag = TRUE])]
  /\ UNCHANGED <<clientVars, envVars, now>>

\* handle_expired_session: the session-expired listener, after sign_out
HesAfter(t) ==
  /\ At(t, "handle_expired_session", "after")
  /\ tasks[t].reg.kind # "none"
  /\ tasks' = [tasks EXCEPT ![t] =
       PopWith(Notify(@, "session-expired", NoVal), Ret(NoVal))]
  /\ UNCHANGED <<clientVars, envVars, now>>

\* sign_out(session_expired): both branches start with
\* await this.delete_access_token(); frame.flag is session_expired
SignOutStart(t) ==
  /\ At(t, "sign_out", "start")
  /\ LET openid == /\ options.id_token_sign_out
                   /\ options.openid
                   /\ id_token_get # ""
     IN tasks' = [tasks EXCEPT ![t] =
          Push(SetTop(@, [Top(t) EXCEPT
                            !.pc = "after",
                            !.branch = IF openid THEN "openid" ELSE "post"]),
               [NoFrame EXCEPT !.fn = "delete_access_token", !.pc = "try"])]
  /\ UNCHANGED <<clientVars, envVars, now>>

\* sign_out after delete_access_token settled: openid_endsession or
\* post_sign_out when it resolved; the catch block (console.log) when it
\* threw, or when openid_endsession throws for want of a user
SignOutAfter(t) ==
  /\ At(t, "sign_out", "after")
  /\ tasks[t].reg.kind # "none"
  /\ LET tk == tasks[t]
         f == Top(t)
         resolved == tk.reg.kind = "ret"
         endsession == resolved /\ f.branch = "openid"
         cleared == resolved /\ (f.branch = "post" \/ user # NullUser)
     IN /\ id_token' = IF endsession THEN "" ELSE id_token
        /\ decoded_id_token' =
             IF endsession /\ user # NullUser THEN "" ELSE decoded_id_token
        /\ user' = IF cleared THEN NullUser ELSE user
        /\ storage' =
             IF ~cleared THEN storage
             ELSE IF endsession
             THEN StoreAfterSignOut(StoreAfterEndSession(storage))
             ELSE StoreAfterSignOut(storage)
        /\ location' = IF endsession /\ cleared
                       THEN [location EXCEPT !.page = "endsession"]
                       ELSE location
        /\ tasks' = [tasks EXCEPT ![t] =
             PopWith(IF cleared /\ ~f.flag THEN Notify(tk, "logged-out", NoVal)
                     ELSE tk,
                     Ret(NoVal))]
  /\ UNCHANGED <<token, uses_token, expiration_timeout, timers, envVars, now>>

\* delete_access_token up to the axios call
DatTry(t) ==
  /\ At(t, "delete_access_token", "try")
  /\ LET f == Top(t)
         tk == SetTop(tasks[t], [f EXCEPT !.pc = "await"])
         r == [kind |-> "revoke", method |-> "delete", query |-> <<>>,
               body |-> "",
               auth |-> phoenix_auth_headers(NoToken), account |-> Undef,
               at |-> now]
     IN tasks' = [tasks EXCEPT ![t] =
          IF Truthy(uses_token) THEN PopWith(tk, Ret(TrueV))
          ELSE Send(tk, r)]
  /\ UNCHANGED <<clientVars, envVars, now>>

\* delete_access_token after the axios call settled
DatDone(t) ==
  /\ At(t, "delete_access_token", "await")
  /\ tasks[t].reg.kind # "none"
  /\ LET tk == tasks[t]
         f == Top(t)
         e == tk.reg.v
     IN tasks' = [tasks EXCEPT ![t] =
          IF tk.reg.kind = "ret" THEN PopWith(tk, Ret([e EXCEPT !.k = "data"]))
          ELSE IF ~HasResponse(e) THEN PopWith(tk, Throw(TypeErrorV))
          ELSE IF e.status = 401 THEN PopWith(tk, Ret(NullV))
          ELSE IF RateLimited(e.status)
          THEN IF e.ra = RaNoObj THEN PopWith(tk, Throw(TypeErrorV))
               ELSE Sleep([tk EXCEPT !.reg = Throw(Response(e))],
                          "sleep429", RateLimitDelay(e.ra))
          ELSE IF ServerErrorRetry(e.status, f.attempt)
          THEN Sleep([tk EXCEPT !.reg = Throw(Response(e))],
                     "sleep5xx", SERVER_ERROR_DELAY)
          ELSE PopWith(Notify(tk, "error", Response(e)),
                       Throw(Response(e)))]
  /\ UNCHANGED <<clientVars, envVars, now>>

\* delete_access_token after the awaited retry settled: the 5xx branch falls
\* through to the error listener and `throw err`
DatRetryDone(t) ==
  /\ Active(t)
  /\ Top(t).fn = "delete_access_token"
  /\ Top(t).pc \in {"retry429", "retry5xx"}
  /\ tasks[t].reg.kind # "none"
  /\ LET tk == tasks[t]
         f == Top(t)
     IN tasks' = [tasks EXCEPT ![t] =
          IF tk.reg.kind = "throw" \/ f.pc = "retry429"
          THEN PopWith(tk, tk.reg)
          ELSE PopWith(Notify(tk, "error", f.err), Throw(f.err))]
  /\ UNCHANGED <<clientVars, envVars, now>>

\* ---------------------------------------------------------------- set_user
\* if (user["expiration"]): null, undefined and 0 are falsy
HasExpiration(sess) == sess.expiration # Undef /\ sess.expiration # Epoch
\* a threshold that counts the skewed deadline itself as passed
ExpiredOnArrival_Inclusive(sess) == sess.expiration <= now + SKEW
\* this._session_expired() once expiration_timeout is user["expiration"]
ExpiredOnArrival(sess) == sess.expiration < now + SKEW
\* const timeout = user["expiration"] - Date.now() - 10000
TimerDelay(sess) == (sess.expiration - SKEW) - now
\* timeout > max_timeout, as expiration - max_timeout > Date.now() + 10000;
\* an expiration before the origin is less than MAX_TIMEOUT past the epoch
ExceedsMaxTimeout(sess) ==
  sess.expiration > 0 /\ sess.expiration - MAX_TIMEOUT > now + SKEW

\* set_user(user) up to its first await: frame.sess is the argument.  The
\* clamp `timeout = max_timeout` assigns to a const and throws, after the
\* session was persisted and before the timer is armed.
SetUserStart(t) ==
  /\ At(t, "set_user", "start")
  /\ LET f == Top(t)
         sess == f.sess
         expired == HasExpiration(sess) /\ ExpiredOnArrival(sess)
         live == HasExpiration(sess) /\ ~ExpiredOnArrival(sess)
         clamp == live /\ ExceedsMaxTimeout(sess)
     IN /\ user' = sess
        /\ expiration_timeout' =
             IF HasExpiration(sess) THEN sess.expiration ELSE expiration_timeout
        /\ storage' = IF live THEN setItem(storage, "session", sess)
                      ELSE storage
        /\ timers' = IF live /\ ~clamp
                     THEN timers (+) SetToBag({now + TimerDelay(sess)})
                     ELSE timers
        /\ tasks' = [tasks EXCEPT ![t] =
             IF expired
             THEN Push(SetTop(@, [f EXCEPT !.pc = "expired"]),
                       [NoFrame EXCEPT !.fn = "handle_expired_session",
                                       !.pc = "start"])
             ELSE IF clamp THEN PopWith(@, Throw(TypeErrorV))
             ELSE PopWith(@, Ret(NoVal))]
  /\ UNCHANGED <<token, uses_token, id_token, decoded_id_token, location,
                 envVars, now>>

\* set_user: after await this.handle_expired_session()
SetUserExpired(t) ==
  /\ At(t, "set_user", "expired")
  /\ tasks[t].reg.kind # "none"
  /\ tasks' = [tasks EXCEPT ![t] = PopWith(@, Ret(NoVal))]
  /\ UNCHANGED <<clientVars, envVars, now>>

\* --------------------------------------------------------------- _load_user
\* a session that keeps expires_at in seconds
DerivedSession_Seconds(resp, tok) ==
  [id |-> resp.voip_id, token |-> tok,
   expiration |-> IF resp.expires_at # Undef /\ resp.expires_at # 0
                  THEN Epoch + resp.expires_at ELSE Undef]
\* the session _load_user derives from the who-am-I response
\* expires_at ? expires_at * 1000 : null
DerivedSession(resp, tok) ==
  [id |-> resp.voip_id, token |-> tok,
   expiration |-> IF resp.expires_at # Undef /\ resp.expires_at # 0
                  THEN Epoch + resp.expires_at * MS_PER_SECOND ELSE Undef]

\* _load_user(token, uses_token, _attempt) up to await this.call_api(...)
LoadUserTry(t) ==
  /\ At(t, "load_user", "try")
  /\ LET f == Top(t)
     IN /\ uses_token' = f.uses_token
        /\ tasks' = [tasks EXCEPT ![t] =
             Push(SetTop(@, [f EXCEPT !.pc = "await"]),
                  [NoFrame EXCEPT !.fn = "call_api", !.pc = "try",
                                  !.op = "get_item", !.global = TRUE,
                                  !.token = f.token, !.kind = "whoami"])]
  /\ UNCHANGED <<user, token, expiration_timeout, id_token, decoded_id_token,
                 storage, timers, location, envVars, now>>

\* _load_user after call_api settled: history.pushState and set_user, or the
\* catch block.  A response without scope_details (call_api's {data: {}})
\* throws inside the try; what the catch block then reads has no response.
LoadUserDone(t) ==
  /\ At(t, "load_user", "await")
  /\ tasks[t].reg.kind # "none"
  /\ LET tk == tasks[t]
         f == Top(t)
         e == tk.reg.v
         ok == tk.reg.kind = "ret"
     IN /\ location' = IF ok THEN [location EXCEPT !.hash = <<>>] ELSE location
        /\ tasks' = [tasks EXCEPT ![t] =
             IF ok
             THEN IF e.voip_id = Undef THEN PopWith(tk, Throw(TypeErrorV))
                  ELSE Push(SetTop(tk, [f EXCEPT !.pc = "set_user"]),
                            [NoFrame EXCEPT
                               !.fn = "set_user", !.pc = "start",
                               !.sess = DerivedSession(e, f.token)])
             ELSE IF ~HasResponse(e) THEN PopWith(tk, Throw(TypeErrorV))
             ELSE IF RateLimited(e.status)
             THEN IF e.ra = RaNoObj THEN PopWith(tk, Throw(TypeErrorV))
                  ELSE Sleep([tk EXCEPT !.reg = Throw(Response(e))],
                             "sleep429", RateLimitDelay(e.ra))
             ELSE IF ServerErrorRetry(e.status, f.attempt)
             THEN Sleep([tk EXCEPT !.reg = Throw(Response(e))],
                        "sleep5xx", SERVER_ERROR_DELAY)
             ELSE PopWith(tk, Throw(Response(e)))]
  /\ UNCHANGED <<user, token, uses_token, expiration_timeout, id_token,
                 decoded_id_token, storage, timers, envVars, now>>

\* _load_user after await this.set_user(...): a throw of set_user is caught
\* by the same catch block, which finds no response on it
LoadUserSetUserDone(t) ==
  /\ At(t, "load_user", "set_user")
  /\ tasks[t].reg.kind # "none"
  /\ tasks' = [tasks EXCEPT ![t] =
       IF @.reg.kind = "ret" THEN PopWith(@, Ret(NoVal))
       ELSE PopWith(@, Throw(TypeErrorV))]
  /\ UNCHANGED <<clientVars, envVars, now>>

\* _load_user after an awaited retry settled: neither branch returns, both
\* fall through to `throw err`
LoadUserRetryDone(t) ==
  /\ Active(t)
  /\ Top(t).fn = "load_user"
  /\ Top(t).pc \in {"retry429", "retry5xx"}
  /\ tasks[t].reg.kind # "none"
  /\ tasks' = [tasks EXCEPT ![t] =
       IF @.reg.kind = "throw" THEN PopWith(@, @.reg)
       ELSE PopWith(@, Throw(Top(t).err))]
  /\ UNCHANGED <<clientVars, envVars, now>>

\* ------------------------------------------------------------------- _oauth
\* parse_query: the value of key in the fragment's key=value pairs
HashValue(hash, key) == Param(hash, key, "")
\* document.location.hash.includes("token_type=Bearer")
HasBearerMarker(hash) ==
  \E i \in 1..Len(hash) : hash[i].k = "token_type" /\ hash[i].v = "Bearer"
\* a bootstrap that never compares the states
StateMismatch_Never(stored, returned) == FALSE
\* !this.options.ignore_state && this._state !== hashObject["state"]
StateMismatch(stored, returned) == ~options.ignore_state /\ stored # returned
\* `${hashObject["token_type"]} ${hashObject["access_token"]}`
BearerToken(hash) ==
  LET word(key) == IF HashValue(hash, key) = "" THEN "undefined"
                   ELSE HashValue(hash, key)
  IN <<word("token_type"), word("access_token")>>
\* Math.floor(Math.random() * 10000000).toString()
StateValues == {"S1", "S2"}

\* a getter that draws a new state on every read
StoredState_Regenerate(fresh) == fresh
\* get _state: the state kept in localStorage, or the fresh random one when
\* there is none (the caller stores what it gets)
StoredState(fresh) ==
  IF storage.browser.state # "" THEN storage.browser.state ELSE fresh

\* _oauth() up to await this._load_user(this.token).  get _state reads the
\* state kept in localStorage, whatever session_scope is, and stores a fresh
\* random one when there is none.
OauthStart(t) ==
  /\ At(t, "oauth", "start")
  /\ LET f == Top(t)
         hash == location.hash
         check == user = NullUser /\ HasBearerMarker(hash)
                  /\ ~options.ignore_state
     IN \E fresh \in StateValues :
          LET stored == StoredState(fresh)
              go == /\ user = NullUser
                    /\ HasBearerMarker(hash)
                    /\ ~StateMismatch(stored, HashValue(hash, "state"))
          IN /\ storage' = IF check
                           THEN [storage EXCEPT !.browser.state = stored]
                           ELSE storage
             /\ token' = IF go THEN BearerToken(hash) ELSE token
             /\ tasks' = [tasks EXCEPT ![t] =
                  IF user # NullUser THEN PopWith(@, Ret(TrueV))
                  ELSE IF ~go THEN PopWith(@, Ret(FalseV))
                  ELSE Push(SetTop(@, [f EXCEPT !.pc = "load",
                                                !.query = hash]),
                            [NoFrame EXCEPT !.fn = "load_user", !.pc = "try",
                                            !.token = BearerToken(hash)])]
  /\ UNCHANGED <<user, uses_token, expiration_timeout, id_token,
                 decoded_id_token, timers, location, envVars, now>>

\* _oauth after _load_user settled: keep the id_token of the fragment
\* (frame.query) when the openid scope was requested, decode it when asked to
\* (decode_id_token answers the payload, or null when the token does not
\* verify; its two fetches from the issuer are not followed here), return
\* true.  The id_token setter reads this.user.id and throws when the session
\* is already gone.
OauthAfterLoad(t) ==
  /\ At(t, "oauth", "load")
  /\ tasks[t].reg.kind # "none"
  /\ LET tk == tasks[t]
         idt == HashValue(Top(t).query, "id_token")
         keep == tk.reg.kind = "ret" /\ idt # "" /\ options.openid
     IN \E claims \in {"", "claims"} :
          LET dec == IF options.decode_id_token THEN claims ELSE ""
          IN /\ id_token' = IF keep THEN idt ELSE id_token
             /\ decoded_id_token' =
                  IF keep /\ user # NullUser /\ options.decode_id_token
                  THEN dec ELSE decoded_id_token
             /\ storage' =
                  IF keep /\ user # NullUser
                  THEN [storage EXCEPT
                          ![Scope].idt[user.id] = idt,
                          ![Scope].dec[user.id] =
                             IF options.decode_id_token THEN dec ELSE @]
                  ELSE storage
             /\ tasks' = [tasks EXCEPT ![t] =
                  IF tk.reg.kind = "throw" THEN PopWith(tk, tk.reg)
                  ELSE IF keep /\ user = NullUser
                  THEN PopWith(tk, Throw(TypeErrorV))
                  ELSE PopWith(tk, Ret(TrueV))]
  /\ UNCHANGED <<user, token, uses_token, expiration_timeout, timers,
                 location, envVars, now>>

\* ---------------------------------------------------------------- init_user
\* init_user up to its first await: the persisted session, when there is one,
\* goes through set_user
InitUserStart(t) ==
  /\ At(t, "init_user", "start")
  /\ LET f == Top(t)
         saved == getItem("session")
     IN tasks' = [tasks EXCEPT ![t] =
          IF saved # NullUser
          THEN Push(SetTop(@, [f EXCEPT !.pc = "restore"]),
                    [NoFrame EXCEPT !.fn = "set_user", !.pc = "start",
                                    !.sess = saved])
          ELSE Push(SetTop(@, [f EXCEPT !.pc = "oauth"]),
                    [NoFrame EXCEPT !.fn = "oauth", !.pc = "start"])]
  /\ UNCHANGED <<clientVars, envVars, now>>

\* init_user after set_user settled: set_user returns undefined, so
\* !(user && (await this.set_user(user))) holds and _oauth is awaited
InitUserRestored(t) ==
  /\ At(t, "init_user", "restore")
  /\ tasks[t].reg.kind # "none"
  /\ tasks' = [tasks EXCEPT ![t] =
       IF @.reg.kind = "throw" THEN PopWith(@, @.reg)
       ELSE Push(SetTop(@, [Top(t) EXCEPT !.pc = "oauth"]),
                 [NoFrame EXCEPT !.fn = "oauth", !.pc = "start"])]
  /\ UNCHANGED <<clientVars, envVars, now>>

\* init_user: return !!this.user
InitUserDone(t) ==
  /\ At(t, "init_user", "oauth")
  /\ tasks[t].reg.kind # "none"
  /\ tasks' = [tasks EXCEPT ![t] =
       IF @.reg.kind = "throw" THEN PopWith(@, @.reg)
       ELSE PopWith(@, Ret(IF user # NullUser THEN TrueV ELSE FalseV))]
  /\ UNCHANGED <<clientVars, envVars, now>>

\* --------------------------------------------------------------- pagination
\* a next offset that forgets the offset of the page before
NextOffset_LimitOnly(hasRes, res) ==
  IF ~hasRes \/ res.limit = Undef THEN 0 ELSE res.limit
\* res ? res["offset"] + res["limit"] : 0 ; a sum with undefined is NaN, which
\* get_list's `if (offset)` treats like 0
NextOffset(hasRes, res) ==
  IF ~hasRes \/ res.offset = Undef \/ res.limit = Undef THEN 0
  ELSE res.offset + res.limit
\* all.concat(res["items"]): concat appends a non-array value as one element
Concat(all, res) ==
  IF res.hasItems THEN all \o res.items ELSE Append(all, Undef)
\* a loop condition without the empty-page check
ListAllContinue_NoEmptyCheck(total, nAll, nPage) ==
  total # Undef /\ total > nAll
\* res["total"] > all.length && res["items"].length
\* (a comparison with undefined is false)
ListAllContinue(total, nAll, nPage) ==
  total # Undef /\ total > nAll /\ nPage # 0
\* a result that describes the page size asked for instead of the result
SyntheticPage_PageLimit(all) ==
  [NoVal EXCEPT !.k = "list", !.hasItems = TRUE, !.items = all, !.offset = 0,
                !.total = Len(all), !.limit = PAGE_LIMIT]
\* {items: all, offset: 0, total: all.length, limit: all.length}
SyntheticPage(all) ==
  [NoVal EXCEPT !.k = "list", !.hasItems = TRUE, !.items = all, !.offset = 0,
                !.total = Len(all), !.limit = Len(all)]

\* get_list_all: the call of get_list at the head of the do-while body;
\* frame.flag tells whether res is set
GlaCall(t) ==
  /\ At(t, "get_list_all", "loop")
  /\ LET f == Top(t)
     IN tasks' = [tasks EXCEPT ![t] =
          Push(SetTop(@, [f EXCEPT !.pc = "await"]),
               OpFrame("get_list", PAGE_LIMIT, NextOffset(f.flag, f.res),
                       f.global))]
  /\ UNCHANGED <<clientVars, envVars, now>>

\* get_list_all after get_list settled: accumulate, then loop or return;
\* reading res["items"].length of a page without items throws
GlaAfter(t) ==
  /\ At(t, "get_list_all", "await")
  /\ tasks[t].reg.kind # "none"
  /\ LET tk == tasks[t]
         f == Top(t)
         res == tk.reg.v
         all == Concat(f.all, res)
     IN tasks' = [tasks EXCEPT ![t] =
          IF tk.reg.kind = "throw" THEN PopWith(tk, tk.reg)
          ELSE IF ~res.hasItems /\ res.total # Undef /\ res.total > Len(all)
          THEN PopWith(tk, Throw(TypeErrorV))
          ELSE IF ListAllContinue(res.total, Len(all), Len(res.items))
          THEN [SetTop(tk, [f EXCEPT !.pc = "loop", !.all = all, !.res = res,
                                     !.flag = TRUE])
                  EXCEPT !.reg = NoReg]
          ELSE PopWith(tk, Ret(SyntheticPage(all)))]
  /\ UNCHANGED <<clientVars, envVars, now>>

\* -------------------------------------------------------------- environment
ServerErrors == {500, 599}
OkResp(rid) == [NoVal EXCEPT !.k = "resp", !.status = 200, !.rid = rid]
AxiosErr(status, ra, rid) ==
  [NoVal EXCEPT !.k = "axios", !.status = status, !.ra = ra, !.rid = rid]
\* a failure without a response (the request never reached the server) has
\* status 0 here
NetworkErr(rid) == [NoVal EXCEPT !.k = "axios", !.rid = rid]
Retryable(v) == v.status = 429 \/ v.status \in ServerErrors
NumRetryable(tk) ==
  Cardinality({i \in 1..Len(tk.resps) : Retryable(tk.resps[i].v)})
\* server.fail: the failures this service produces; server.ras: the
\* Retry-After payloads its 429 answers carry; server.budget: how many 429
\* and 5xx answers the client is given
Failures(tk) ==
  LET rid == Len(tk.reqs)
      more == NumRetryable(tasks["main"]) + NumRetryable(tasks["timer"])
                < server.budget
  IN {AxiosErr(s, RaAbsent, rid) :
        s \in {x \in server.fail : x # 429 /\ (Retryable([status |-> x]) => more)}}
     \cup {AxiosErr(429, ra, rid) :
             ra \in IF 429 \in server.fail /\ more THEN server.ras ELSE {}}
\* a listing endpoint that holds server.items and answers every request with
\* the slice asked for and the true total
HonestPage(tk) ==
  LET off == Param(tk.req.query, "offset", 0)
      lim == Param(tk.req.query, "limit", DEFAULT_LIMIT)
      T == Len(server.items)
  IN [OkResp(Len(tk.reqs)) EXCEPT
        !.hasItems = TRUE,
        !.items = SubSeq(server.items, off + 1, Min(off + lim, T)),
        !.offset = off, !.limit = lim, !.total = T]
\* a listing endpoint that answers pages of any size with any total, with or
\* without the paging fields
AnyPages(tk) ==
  LET rid == Len(tk.reqs)
      off == Param(tk.req.query, "offset", 0)
      lim == Param(tk.req.query, "limit", DEFAULT_LIMIT)
  IN {[OkResp(rid) EXCEPT !.hasItems = TRUE,
                          !.items = [i \in 1..n |-> 10 * rid + i],
                          !.offset = o, !.limit = lim, !.total = tot] :
        n \in 0..MaxPage, tot \in {Undef} \cup 0..MaxTotal,
        o \in {off, Undef}}
     \cup {[OkResp(rid) EXCEPT !.total = tot] : tot \in {Undef, MaxTotal}}
\* the access-token endpoint describes the token: the account it belongs to
\* (scope_details[0].voip_id) and, at will, when it expires (expires_at, in
\* seconds)
WhoAmI(tk) ==
  {[OkResp(Len(tk.reqs)) EXCEPT !.voip_id = id, !.expires_at = exp] :
     id \in server.ids, exp \in server.expiries}
\* what the service may answer to the pending request of a task
Successes(tk) ==
  CASE tk.req.kind = "list" ->
         IF server.honest THEN {HonestPage(tk)} ELSE AnyPages(tk)
    [] tk.req.kind = "whoami" -> WhoAmI(tk)
    [] OTHER -> {OkResp(Len(tk.reqs))}
Answers(tk) ==
  {Ret(v) : v \in Successes(tk)} \cup {Throw(e) : e \in Failures(tk)}

\* the pending request of task t settles
Respond(t) ==
  /\ tasks[t].wait = "net"
  /\ NoneRunning
  /\ \E a \in Answers(tasks[t]) :
       tasks' = [tasks EXCEPT ![t].wait = "run", ![t].reg = a,
                              ![t].resps = Append(@, [v |-> a.v, at |-> now])]
  /\ UNCHANGED <<clientVars, envVars, now>>

\* a retry callback that forgets the incremented attempt number
RetryCall_SameAttempt(f, attempt) == [f EXCEPT !.pc = "try", !.err = NoVal]
\* the frame the retry callback of handle_rate_limit /
\* handle_internal_server_error calls: the same function again
\* (_load_user's callbacks call this._load_user(token, _attempt): the attempt
\* number lands in the uses_token parameter and _attempt takes its default)
RetryCall(f, attempt) ==
  IF f.fn = "load_user"
  THEN [f EXCEPT !.pc = "try", !.uses_token = JsNum(attempt), !.attempt = 1,
                 !.err = NoVal]
  ELSE [f EXCEPT !.pc = "try", !.attempt = attempt, !.err = NoVal]

\* the setTimeout of handle_rate_limit / handle_internal_server_error fires
\* and runs the callback; the 5xx callback does _attempt++ first
WakeUp(t) ==
  /\ tasks[t].wait = "sleep"
  /\ NoneRunning
  /\ \A d \in BagToSet(timers) : d >= tasks[t].wake
  /\ now' = IF tasks[t].wake > now THEN tasks[t].wake ELSE now
  /\ LET f == Top(t)
         rate == f.pc = "sleep429"
         attempt == IF rate THEN f.attempt ELSE f.attempt + 1
         tk == [tasks[t] EXCEPT !.wait = "run"]
     IN tasks' = [tasks EXCEPT ![t] =
          Push(SetTop(tk, [f EXCEPT
                             !.pc = IF rate THEN "retry429" ELSE "retry5xx",
                             !.attempt = attempt]),
               RetryCall(f, attempt))]
  /\ UNCHANGED <<clientVars, envVars>>

\* an armed expiration timer fires: handle_expired_session runs as a task of
\* its own
TimerFire ==
  /\ NoneRunning
  /\ Free("timer")
  /\ \E d \in BagToSet(timers) :
       /\ \A d2 \in BagToSet(timers) : d <= d2
       /\ \A t \in TaskIds : tasks[t].wait = "sleep" => d <= tasks[t].wake
       /\ now' = IF d > now THEN d ELSE now
       /\ timers' = timers (-) SetToBag({d})
  /\ tasks' = [tasks EXCEPT !["timer"] =
       [IdleTask EXCEPT !.wait = "run", !.call = "timer",
                        !.stack = <<[NoFrame EXCEPT
                                       !.fn = "handle_expired_session",
                                       !.pc = "start"]>>]]
  /\ UNCHANGED <<user, token, uses_token, expiration_timeout, id_token,
                 decoded_id_token, storage, location, envVars>>

\* the application calls one of the resource operations
StartOp ==
  /\ NoneRunning
  /\ Fresh("main")
  /\ \E op \in Ops :
       \E offset \in IF op = "get_list" THEN {0, DEFAULT_LIMIT} ELSE {0} :
         tasks' = [tasks EXCEPT !["main"] =
           [IdleTask EXCEPT
              !.wait = "run", !.call = op,
              !.stack = <<OpFrame(op, IF op = "get_list" THEN DEFAULT_LIMIT
                                      ELSE 0, offset, FALSE)>>]]
  /\ UNCHANGED <<clientVars, options, listeners, server, now>>

\* --------------------------------------------------------------- behaviours
DefaultOptions ==
  [handle_rate_limit |-> TRUE, handle_server_error |-> 3,
   id_token_sign_out |-> FALSE, decode_id_token |-> FALSE,
   ignore_state |-> FALSE, openid |-> FALSE, session_scope |-> "tab"]
SessionA == [id |-> 1, token |-> <<"Bearer", "A">>, expiration |-> Undef]
\* a session whose skewed deadline is 1500 ms ahead: armed and persisted
SessionB == [id |-> 1, token |-> <<"Bearer", "B">>,
             expiration |-> Now0 + SKEW + 3 * SERVER_ERROR_DELAY]

\* a service that never fails, with an honest and empty listing endpoint
NoServer ==
  [fail |-> {}, ras |-> {}, budget |-> MaxFail, honest |-> TRUE,
   items |-> <<>>, ids |-> {}, expiries |-> {}]

InitCommon ==
  /\ token = NoToken
  /\ id_token = ""
  /\ decoded_id_token = ""
  /\ now = Now0
  /\ location = [hash |-> <<>>, page |-> "app"]
  /\ tasks = [t \in TaskIds |-> IdleTask]

\* a client holding a session, about to issue resource operations
InitRetry ==
  /\ InitCommon
  /\ \E hrl \in BOOLEAN, hse \in 0..MaxHse :
       options = [DefaultOptions EXCEPT !.handle_rate_limit = hrl,
                                        !.handle_server_error = hse]
  /\ \E s \in ServerErrors :
       server = [NoServer EXCEPT !.fail = {0, 403, 429, s},
                                 !.ras = {RaAbsent, 2}, !.items = <<1, 2>>]
  /\ listeners = AllEvents
  /\ uses_token = JsFalse
  /\ user = SessionA
  /\ expiration_timeout = Epoch
  /\ timers = EmptyBag
  /\ storage = [tab |-> EmptyStore, browser |-> EmptyStore]

NetSteps ==
  \/ \E t \in TaskIds : Respond(t)
  \/ \E t \in TaskIds : WakeUp(t)
CallApiSteps ==
  \/ \E t \in TaskIds : CallApiTry(t)
  \/ \E t \in TaskIds : CallApiDone(t)
OpSteps ==
  \/ \E t \in TaskIds : OpTry(t)
  \/ \E t \in TaskIds : OpDone(t)
  \/ \E t \in TaskIds : OpRetryDone(t)
RetrySteps == OpSteps \/ CallApiSteps \/ NetSteps
ExpirySteps ==
  \/ \E t \in TaskIds : HesStart(t)
  \/ \E t \in TaskIds : HesAfter(t)
  \/ \E t \in TaskIds : SignOutStart(t)
  \/ \E t \in TaskIds : SignOutAfter(t)
  \/ \E t \in TaskIds : DatTry(t)
  \/ \E t \in TaskIds : DatDone(t)
  \/ \E t \in TaskIds : DatRetryDone(t)
SetUserSteps ==
  \/ \E t \in TaskIds : SetUserStart(t)
  \/ \E t \in TaskIds : SetUserExpired(t)
LoadUserSteps ==
  \/ \E t \in TaskIds : LoadUserTry(t)
  \/ \E t \in TaskIds : LoadUserDone(t)
  \/ \E t \in TaskIds : LoadUserSetUserDone(t)
  \/ \E t \in TaskIds : LoadUserRetryDone(t)
  \/ \E t \in TaskIds : CallApiExpired(t)
BootSteps ==
  \/ \E t \in TaskIds : OauthStart(t)
  \/ \E t \in TaskIds : OauthAfterLoad(t)
  \/ \E t \in TaskIds : InitUserStart(t)
  \/ \E t \in TaskIds : InitUserRestored(t)
  \/ \E t \in TaskIds : InitUserDone(t)

NextRetry == StartOp \/ RetrySteps
SpecRetry == InitRetry /\ [][NextRetry]_vars

\* ------------------------------------------------- claims on the retry policy
Main == tasks["main"]
Status(i) == Main.resps[i].v.status
NResp == Len(Main.resps)
Settled == Main.wait = "done"
\* the service answered 429 to every request but the last, and 2xx to that
RateLimitedThenOk ==
  /\ NResp >= 1
  /\ Status(NResp) = 200
  /\ \A i \in 1..(NResp - 1) : Status(i) = 429
\* the service answered 5xx to every request so far
OnlyServerErrors == NResp >= 1 /\ \A i \in 1..NResp : Status(i) \in ServerErrors
\* ... and then 2xx to the last one
ServerErrorsThenOk ==
  /\ NResp >= 2
  /\ Status(NResp) = 200
  /\ \A i \in 1..(NResp - 1) : Status(i) \in ServerErrors
\* the operation rejected with the response of request i, as received
RejectedWith(i) ==
  /\ Main.reg.kind = "throw"
  /\ Main.reg.v = Response(Main.resps[i].v)
ResolvedWith(i) ==
  /\ Main.reg.kind = "ret"
  /\ Main.reg.v.status = 200
  /\ Main.reg.v.rid = i

\* C1: with handle_rate_limit enabled, N >= 0 answers 429 followed by a 2xx make
\* every resource operation resolve with the 2xx payload after exactly N+1
\* requests, each re-issue at least Retry-After seconds after the 429 before it.
C1_RateLimitRetried ==
  (Main.call \in Ops /\ options.handle_rate_limit /\ RateLimitedThenOk) =>
    /\ Len(Main.reqs) = NResp
    /\ Main.wait \in {"run", "done"}
    /\ Settled => ResolvedWith(NResp)
    /\ \A i \in 1..(NResp - 1) :
         Main.resps[i].v.ra >= 0 =>
           Main.reqs[i + 1].at - Main.resps[i].at
             >= Main.resps[i].v.ra * MS_PER_SECOND
C1_Witness ==
  /\ Main.call \in Ops
  /\ options.handle_rate_limit
  /\ RateLimitedThenOk
  /\ NResp = 3
  /\ Main.resps[2].v.ra = 2
  /\ Settled
  /\ ResolvedWith(3)

\* C2: with handle_server_error = M > 0, K answers 5xx (1 <= K <= M) followed
\* by a 2xx make every resource operation resolve with the 2xx payload after
\* K+1 requests.
C2_ServerErrorRecovered ==
  (/\ Main.call \in Ops
   /\ options.handle_server_error > 0
   /\ ServerErrorsThenOk
   /\ NResp - 1 <= options.handle_server_error
   /\ Settled) =>
    /\ Len(Main.reqs) = NResp
    /\ ResolvedWith(NResp)

\* C3: with handle_server_error = M > 0 and a service that keeps answering 5xx,
\* every resource operation issues exactly M+1 requests and then rejects with
\* the failure of the last request, unchanged.
C3_ServerErrorBounded ==
  (Main.call \in Ops /\ options.handle_server_error > 0 /\ OnlyServerErrors) =>
    /\ Len(Main.reqs) <= options.handle_server_error + 1
    /\ NResp = options.handle_server_error + 1 => Main.wait \in {"run", "done"}
    /\ Settled =>
         /\ NResp = options.handle_server_error + 1
         /\ Len(Main.reqs) = NResp
         /\ RejectedWith(NResp)
C3_Witness ==
  /\ Main.call \in Ops
  /\ options.handle_server_error = MaxHse
  /\ OnlyServerErrors
  /\ Settled
  /\ NResp = MaxHse + 1
  /\ RejectedWith(NResp)

\* C4: with handle_rate_limit = false a 429, and with handle_server_error =
\* false a 5xx, makes every resource operation reject with that failure after
\* exactly one request and without waiting.
RetryDisabledFor(status) ==
  \/ ~options.handle_rate_limit /\ status = 429
  \/ options.handle_server_error = 0 /\ status \in ServerErrors
C4_DisabledThrowsAtOnce ==
  (Main.call \in Ops /\ NResp >= 1 /\ RetryDisabledFor(Status(1))) =>
    /\ Len(Main.reqs) = 1
    /\ Main.wait \in {"run", "done"}
    /\ now = Main.reqs[1].at
    /\ Settled => RejectedWith(1)
C4_Witness ==
  /\ Main.call \in Ops
  /\ NResp = 1
  /\ ~options.handle_rate_limit
  /\ Status(1) = 429
  /\ Settled
  /\ RejectedWith(1)
C4_WitnessServerError ==
  /\ Main.call \in Ops
  /\ NResp = 1
  /\ options.handle_server_error = 0
  /\ Status(1) \in ServerErrors
  /\ Settled
  /\ RejectedWith(1)

\* the application calls get_list_all
StartListAll ==
  /\ NoneRunning
  /\ Fresh("main")
  /\ tasks' = [tasks EXCEPT !["main"] =
       [IdleTask EXCEPT
          !.wait = "run", !.call = "get_list_all",
          !.stack = <<[NoFrame EXCEPT !.fn = "get_list_all", !.pc = "loop"]>>]]
  /\ UNCHANGED <<clientVars, options, listeners, server, now>>

\* a client holding a session, facing either an honest listing endpoint of
\* 0..MaxItems items or an inconsistent one that also rate-limits
InitList ==
  /\ InitCommon
  /\ options = DefaultOptions
  /\ listeners = AllEvents
  /\ uses_token = JsFalse
  /\ user = SessionA
  /\ expiration_timeout = Epoch
  /\ timers = EmptyBag
  /\ storage = [tab |-> EmptyStore, browser |-> EmptyStore]
  /\ \/ \E T \in 0..MaxItems :
          server = [NoServer EXCEPT !.items = [i \in 1..T |-> i]]
     \/ server = [NoServer EXCEPT !.fail = {403, 429}, !.ras = {RaAbsent},
                                  !.honest = FALSE]

ListSteps ==
  \/ \E t \in TaskIds : GlaCall(t)
  \/ \E t \in TaskIds : GlaAfter(t)
NextList == StartListAll \/ ListSteps \/ RetrySteps
SpecList == InitList /\ [][NextList]_vars

\* --------------------------------------------------- claims on get_list_all
ListAllDone == Main.call = "get_list_all" /\ Settled
ListAllResolved == ListAllDone /\ Main.reg.kind = "ret"
CeilDiv(a, b) == (a + b - 1) \div b
\* request i asked for limit=500 at offset 500 * (i - 1); offset 0 is not sent
AskedPage(i) ==
  /\ Main.reqs[i].method = "get"
  /\ Main.reqs[i].query =
       <<[k |-> "limit", v |-> PAGE_LIMIT]>>
       \o (IF i = 1 THEN <<>>
           ELSE <<[k |-> "offset", v |-> PAGE_LIMIT * (i - 1)]>>)
\* the pages of the 2xx answers, concatenated in the order received
RECURSIVE Received(_)
Received(n) ==
  IF n = 0 THEN <<>>
  ELSE LET r == Main.resps[n].v
       IN IF r.status = 200 THEN Concat(Received(n - 1), r)
          ELSE Received(n - 1)
CompleteCollection(fetches) ==
  /\ ListAllResolved
  /\ Main.reg.v.items = server.items
  /\ Len(Main.reqs) = fetches
  /\ \A i \in 1..Len(Main.reqs) : AskedPage(i)

\* C5 as claimed: against an honest endpoint holding T items get_list_all
\* returns exactly the T items in server order with ceil(T/500) page requests
\* at offsets 0, 500, 1000, ...
C5_CeilFetches ==
  (server.honest /\ ListAllDone) =>
    CompleteCollection(CeilDiv(Len(server.items), PAGE_LIMIT))
\* C5 amended: ... with ceil(T/500) page requests, and one request when T = 0
C5_CompleteCollection ==
  (server.honest /\ ListAllDone) =>
    CompleteCollection(IF server.items = <<>> THEN 1
                       ELSE CeilDiv(Len(server.items), PAGE_LIMIT))
C5_Witness ==
  /\ server.honest
  /\ Len(server.items) = 1200
  /\ CompleteCollection(3)
  /\ Len(Main.resps[1].v.items) = 500
  /\ Len(Main.resps[2].v.items) = 500
  /\ Len(Main.resps[3].v.items) = 200

\* a page with an items array and a numeric total
WellFormed(p) == p.status = 200 /\ p.hasItems /\ p.total # Undef
\* C6: get_list_all fetches a further page only while the last page was not
\* empty and the reported total exceeds the accumulated count; when it stops it
\* returns what was accumulated, even if the reported total is larger.
C6_StopsOnEmptyOrTotal ==
  Main.call = "get_list_all" =>
    /\ \A i \in 1..(Len(Main.reqs) - 1) :
         LET p == Main.resps[i].v
         IN WellFormed(p) =>
              /\ Len(p.items) > 0
              /\ p.total > Len(Received(i))
    /\ (ListAllDone /\ NResp >= 1 /\ WellFormed(Main.resps[NResp].v)) =>
         LET p == Main.resps[NResp].v
         IN /\ Len(p.items) = 0 \/ Len(Received(NResp)) >= p.total
            /\ ListAllResolved
            /\ Main.reg.v.items = Received(NResp)
C6_Witness ==
  /\ ListAllResolved
  /\ NResp >= 2
  /\ WellFormed(Main.resps[NResp].v)
  /\ Len(Main.resps[NResp].v.items) = 0
  /\ Main.resps[NResp].v.total > Len(Main.reg.v.items)
  /\ Len(Main.reg.v.items) > 0

\* C7: whenever get_list_all resolves, the result has offset = 0 and
\* limit = total = the number of items returned, whatever the service reported.
C7_SyntheticPage ==
  ListAllResolved =>
    /\ Main.reg.v.offset = 0
    /\ Main.reg.v.limit = Len(Main.reg.v.items)
    /\ Main.reg.v.total = Len(Main.reg.v.items)
C7_Witness ==
  /\ ListAllResolved
  /\ ~server.honest
  /\ NResp >= 1
  /\ WellFormed(Main.resps[NResp].v)
  /\ Main.resps[NResp].v.total # Len(Main.reg.v.items)
  /\ Main.resps[NResp].v.limit # Len(Main.reg.v.items)
  /\ Len(Main.reg.v.items) > 0

\* ------------------------------------------------- bootstrap and expiry runs
\* the redirect fragments the provider sends the browser back with
FragmentState == "S1"
Fragment ==
  <<[k |-> "token_type", v |-> "Bearer"], [k |-> "access_token", v |-> "T"],
    [k |-> "state", v |-> FragmentState]>>
FragmentWithIdToken == Fragment \o <<[k |-> "id_token", v |-> "J"]>>
FragmentWithoutState == SubSeq(Fragment, 1, 2)
\* a persisted session whose skewed deadline passed a millisecond ago
SessionX == [id |-> 1, token |-> <<"Bearer", "X">>,
             expiration |-> Now0 + SKEW - 1]
\* a persisted session that expires more than MAX_TIMEOUT after its skewed
\* deadline: set_user persists it before the timer is computed
SessionFar == [id |-> 1, token |-> <<"Bearer", "F">>,
               expiration |-> Now0 + SKEW + MAX_TIMEOUT + 1]
\* what an earlier page left under session_name
SavedSessions == {NullUser, SessionB, SessionX, SessionFar}
\* expires_at values (seconds) of the access-token endpoint: none, one whose
\* skewed deadline has passed, one that is ahead
ExpiresAts ==
  LET seconds == (Now0 - Epoch) \div MS_PER_SECOND
  IN {Undef, seconds, 2 * seconds}

\* the application calls init_user(); the task remembers the persisted
\* session init_user starts from
StartInitUser ==
  /\ NoneRunning
  /\ Fresh("main")
  /\ tasks' = [tasks EXCEPT !["main"] =
       [IdleTask EXCEPT !.wait = "run", !.call = "init_user",
                        !.arg = getItem("session"),
                        !.stack = <<[NoFrame EXCEPT !.fn = "init_user",
                                                    !.pc = "start"]>>]]
  /\ UNCHANGED <<clientVars, envVars, now>>

\* an application that authenticates with a token of its own, and so never
\* went through the redirect, calls _load_user(token, uses_token)
StartLoadUser ==
  /\ NoneRunning
  /\ Fresh("main")
  /\ location.hash = <<>>
  /\ \E ut \in {JsFalse, JsTrue} :
       tasks' = [tasks EXCEPT !["main"] =
         [IdleTask EXCEPT
            !.wait = "run", !.call = "load_user",
            !.arg = [NullUser EXCEPT !.token = <<"Bearer", "U">>],
            !.ut = ut,
            !.stack = <<[NoFrame EXCEPT !.fn = "load_user", !.pc = "try",
                                        !.token = <<"Bearer", "U">>,
                                        !.uses_token = ut]>>]]
  /\ UNCHANGED <<clientVars, envVars, now>>

\* a browser coming back from the provider, or opening the page again: no
\* session in memory, perhaps one in storage and a fragment in the location
InitBoot ==
  /\ user = NullUser
  /\ token = NoToken
  /\ uses_token = JsFalse
  /\ expiration_timeout = Epoch
  /\ id_token = ""
  /\ decoded_id_token = ""
  /\ timers = EmptyBag
  /\ now = Now0
  /\ tasks = [t \in TaskIds |-> IdleTask]
  /\ listeners = AllEvents
  /\ \E ign \in BOOLEAN, oid \in BOOLEAN :
       options = [DefaultOptions EXCEPT
                    !.handle_server_error = 1, !.ignore_state = ign,
                    !.openid = oid, !.decode_id_token = oid,
                    !.session_scope = IF oid THEN "browser" ELSE "tab"]
  /\ \E saved \in SavedSessions,
        state \in {""} \cup StateValues :
       storage = [[tab |-> EmptyStore, browser |-> EmptyStore] EXCEPT
                    ![Scope].session = saved, !.browser.state = state]
  /\ \E hash \in {<<>>, Fragment, FragmentWithIdToken, FragmentWithoutState} :
       location = [hash |-> hash, page |-> "app"]
  /\ server = [NoServer EXCEPT !.fail = {401, 429, 500}, !.ras = {RaAbsent},
                               !.ids = {2}, !.expiries = ExpiresAts]

NextBoot ==
  \/ StartInitUser
  \/ StartLoadUser
  \/ BootSteps
  \/ LoadUserSteps
  \/ SetUserSteps
  \/ ExpirySteps
  \/ CallApiSteps
  \/ NetSteps
SpecBoot == InitBoot /\ [][NextBoot]_vars

\* the sessions the application hands to set_user: without expiration, with
\* the falsy 0, already past, around the skewed deadline, and beyond what one
\* setTimeout can wait for
Expirations ==
  {Undef, Epoch, Now0 - 1, Now0 + SKEW - 1, Now0 + SKEW, Now0 + SKEW + 1,
   Now0 + SKEW + MAX_TIMEOUT + 1}
\* the application calls set_user(user)
StartSetUser ==
  /\ NoneRunning
  /\ Fresh("main")
  /\ \E e \in Expirations :
       LET sess == [id |-> 2, token |-> <<"Bearer", "N">>, expiration |-> e]
       IN tasks' = [tasks EXCEPT !["main"] =
            [IdleTask EXCEPT
               !.wait = "run", !.call = "set_user", !.arg = sess,
               !.stack = <<[NoFrame EXCEPT !.fn = "set_user", !.pc = "start",
                                           !.sess = sess]>>]]
  /\ UNCHANGED <<clientVars, envVars, now>>

\* the application calls sign_out()
StartSignOut ==
  /\ NoneRunning
  /\ Fresh("main")
  /\ tasks' = [tasks EXCEPT !["main"] =
       [IdleTask EXCEPT !.wait = "run", !.call = "sign_out",
                        !.stack = <<[NoFrame EXCEPT !.fn = "sign_out",
                                                    !.pc = "start"]>>]]
  /\ UNCHANGED <<clientVars, envVars, now>>

\* a client that is anonymous, or holds a session without expiration, or
\* holds one with its timer armed and its copy persisted
InitSession ==
  /\ InitCommon
  /\ listeners = AllEvents
  /\ \E oid \in BOOLEAN :
       /\ options = [DefaultOptions EXCEPT
                       !.handle_server_error = 1, !.openid = oid,
                       !.id_token_sign_out = oid]
       /\ \E held \in {NullUser, SessionA, SessionB} :
            /\ user = held
            /\ expiration_timeout =
                 IF HasExpiration(held) THEN held.expiration ELSE Epoch
            /\ timers = IF HasExpiration(held)
                        THEN SetToBag({held.expiration - SKEW}) ELSE EmptyBag
            /\ storage =
                 [[tab |-> EmptyStore, browser |-> EmptyStore] EXCEPT
                    ![Scope].session =
                       IF HasExpiration(held) THEN held ELSE NullUser,
                    ![Scope].idt =
                       IF oid /\ held # NullUser
                       THEN [NoIdTokens EXCEPT ![held.id] = "J"]
                       ELSE NoIdTokens]
            /\ \E ut \in {JsFalse, JsTrue} :
                 uses_token = IF held = NullUser THEN JsFalse ELSE ut
  /\ server = [NoServer EXCEPT !.fail = {0, 401, 403, 429, 500},
                               !.ras = {RaAbsent},
                               !.budget = MaxSignOutFail]

\* the runs followed here let an expiration timer fire only while no call of
\* the application is in flight
TimerFireBetweenCalls == Free("main") /\ TimerFire

NextSession ==
  \/ StartSetUser
  \/ StartSignOut
  \/ SetUserSteps
  \/ ExpirySteps
  \/ NetSteps
  \/ TimerFireBetweenCalls
SpecSession == InitSession /\ [][NextSession]_vars

\* ------------------------------------------------- claims on the bootstrap
\* the who-am-I requests of the run that were answered with a 2xx
WhoAmIAnswered ==
  {i \in 1..NResp : Main.reqs[i].kind = "whoami" /\ Status(i) = 200}
\* the session the claim expects from a who-am-I response r
ExpectedSession(r) ==
  [id |-> r.voip_id, token |-> <<"Bearer", "T">>,
   expiration |-> IF r.expires_at = Undef THEN Undef
                  ELSE Epoch + r.expires_at * 1000]
\* set_user is about to run on behalf of _load_user
InstallingLoadedUser ==
  /\ At("main", "set_user", "start")
  /\ Len(Main.stack) >= 2
  /\ Main.stack[2].fn = "load_user"
\* the skewed deadline of session s had passed when response i arrived
ExpiredAt(s, i) ==
  s.expiration # Undef /\ s.expiration < Main.resps[i].at + SKEW

\* C8: redirect bootstrap.  In a run of init_user every who-am-I request
\* carries "Bearer T" of the fragment, which is sent only past the state
\* check; when it is answered with a 2xx, the session handed to set_user has
\* token "Bearer T", the voip_id of the response as id and expires_at * 1000
\* (or nothing) as expiration, and unless that deadline has already passed it
\* is the active session when init_user settles.
C8_BootstrapInstalls ==
  Main.call = "init_user" =>
    /\ \A i \in 1..Len(Main.reqs) :
         Main.reqs[i].kind = "whoami" =>
           /\ Main.reqs[i].auth = <<"Bearer", "T">>
           /\ options.ignore_state \/ storage.browser.state = FragmentState
    /\ InstallingLoadedUser =>
         /\ NResp \in WhoAmIAnswered
         /\ Top("main").sess = ExpectedSession(Main.resps[NResp].v)
    /\ Settled =>
         \A i \in WhoAmIAnswered :
           LET s == ExpectedSession(Main.resps[i].v)
           IN ~ExpiredAt(s, i) => user = s
\* the fragment matched the stored state, the who-am-I call succeeded at once
\* with an expires_at ahead, and init_user resolved true with the session
C8_Witness ==
  /\ Main.call = "init_user"
  /\ Settled
  /\ Main.reg = Ret(TrueV)
  /\ ~options.ignore_state
  /\ storage.browser.state = FragmentState
  /\ WhoAmIAnswered = {1}
  /\ Main.resps[1].v.expires_at # Undef
  /\ user = [id |-> 2, token |-> <<"Bearer", "T">>,
             expiration |-> Epoch + Main.resps[1].v.expires_at * 1000]
\* the same with a response that carries no expires_at
C8_WitnessNoExpiry ==
  /\ Main.call = "init_user"
  /\ Settled
  /\ Main.reg = Ret(TrueV)
  /\ ~options.ignore_state
  /\ storage.browser.state = FragmentState
  /\ WhoAmIAnswered = {1}
  /\ Main.resps[1].v.expires_at = Undef
  /\ user = [id |-> 2, token |-> <<"Bearer", "T">>, expiration |-> Undef]

\* some request of some task carried the token of the fragment
FragmentTokenSent ==
  \E t \in TaskIds : \E i \in 1..Len(tasks[t].reqs) :
    tasks[t].reqs[i].auth = <<"Bearer", "T">>
\* a session made from the fragment is active or persisted
FragmentSession ==
  \/ user.token = <<"Bearer", "T">>
  \/ \E scope \in {"tab", "browser"} :
       storage[scope].session.token = <<"Bearer", "T">>
\* the location holds a fragment whose state is not the stored one, and the
\* check is on
FragmentRejected ==
  /\ ~options.ignore_state
  /\ HasBearerMarker(location.hash)
  /\ storage.browser.state # ""
  /\ storage.browser.state # HashValue(location.hash, "state")

\* C9: anti-forgery safety.  A session made from the fragment exists, or a
\* request carries the fragment's token, only if ignore_state is set or the
\* stored state equals the state of the fragment; and while init_user faces a
\* fragment whose state differs from the stored one, this.token is unset, no
\* request went out with the fragment's token, and the only sessions in memory
\* and in storage are the ones that were persisted before; where none was
\* (expiration_timeout is untouched), init_user resolves false with user null,
\* nothing persisted and no request sent at all.
C9_AntiForgery ==
  /\ (FragmentSession \/ FragmentTokenSent \/ token = <<"Bearer", "T">>) =>
       options.ignore_state \/ storage.browser.state = FragmentState
  /\ (Main.call = "init_user" /\ FragmentRejected) =>
       /\ token = NoToken
       /\ ~FragmentTokenSent
       /\ ~FragmentSession
       /\ user \in SavedSessions
       /\ getItem("session") \in SavedSessions
       /\ \A i \in 1..Len(Main.reqs) : Main.reqs[i].kind # "whoami"
       /\ (Settled /\ expiration_timeout = Epoch) =>
            /\ user = NullUser
            /\ getItem("session") = NullUser
            /\ Main.reqs = <<>>
            /\ Main.reg = Ret(FalseV)
\* init_user met a fragment with state S1 while S2 was stored: it resolved
\* false, with no session, nothing persisted and no request sent
C9_Witness ==
  /\ Main.call = "init_user"
  /\ Settled
  /\ Main.reg = Ret(FalseV)
  /\ FragmentRejected
  /\ HashValue(location.hash, "state") = FragmentState
  /\ storage.browser.state = "S2"
  /\ user = NullUser
  /\ getItem("session") = NullUser
  /\ Main.reqs = <<>>

\* ------------------------------------------------- claims on forced expiry
Happened(t, ev) ==
  \E i \in 1..Len(tasks[t].events) : tasks[t].events[i].ev = ev
\* set_user was called with a session whose skewed deadline had passed
SetUserWithExpired ==
  /\ Main.call = "set_user"
  /\ HasExpiration(Main.arg)
  /\ Main.arg.expiration < Now0 + SKEW

\* C10: installing an already expired session.  Once set_user has settled for
\* a session whose skewed deadline had passed, there is no active session, no
\* persisted one, the session-expired listener was invoked and the logged-out
\* listener was not.
C10_ExpiredSessionCleared ==
  (SetUserWithExpired /\ Settled) =>
    /\ user = NullUser
    /\ getItem("session") = NullUser
    /\ Happened("main", "session-expired")
    /\ ~Happened("main", "logged-out")
\* where the revocation succeeded, the claim's outcome is what happens
C10_RevokedThenCleared ==
  /\ SetUserWithExpired
  /\ Settled
  /\ NResp = 1
  /\ Status(1) = 200
  /\ user = NullUser
  /\ Happened("main", "session-expired")
\* DELETE /v4/oauth/access-token was refused with a 403: sign_out swallowed the
\* throw, the expired session is still the active one
C10_RefusedThenKept ==
  /\ SetUserWithExpired
  /\ Settled
  /\ NResp = 1
  /\ Status(1) = 403
  /\ user = Main.arg
  /\ Happened("main", "session-expired")

\* ------------------------------------------- claims on the persisted session
\* init_user started from a persisted session whose skewed deadline is ahead
RestoringLive ==
  /\ Main.call = "init_user"
  /\ Main.arg # NullUser
  /\ Main.arg.expiration >= Now0 + SKEW
\* C11: persist / restore round trip.  When init_user of a fresh client, run
\* over a persisted session that has not expired, has settled, that session is
\* the active one, init_user resolved true and no who-am-I request was sent.
C11_RoundTrip ==
  (RestoringLive /\ Settled) =>
    /\ user = Main.arg
    /\ Main.reg = Ret(TrueV)
    /\ Main.reqs = <<>>
\* the round trip of a session whose timer fits one setTimeout
C11_RestoredLive ==
  /\ RestoringLive
  /\ Settled
  /\ Main.arg = SessionB
  /\ user = SessionB
  /\ Main.reg = Ret(TrueV)
  /\ Main.reqs = <<>>
\* the round trip of a session more than MAX_TIMEOUT ahead: set_user throws on
\* the assignment to its const, init_user rejects
C11_RestoredFarRejects ==
  /\ RestoringLive
  /\ Settled
  /\ Main.arg = SessionFar
  /\ user = SessionFar
  /\ Main.reg = Throw(TypeErrorV)

\* some task sent DELETE /v4/oauth/access-token
RevokeSent ==
  \E t \in TaskIds : \E i \in 1..Len(tasks[t].reqs) :
    tasks[t].reqs[i].kind = "revoke"
NoSession == user = NullUser /\ getItem("session") = NullUser
\* the expiration timer ran expired-session handling to its end and the
\* application has not called anything since
TimerExpiryDone == tasks["timer"].wait = "done" /\ Main.wait = "idle"

\* C12: a token of the caller's is never revoked.  While the client holds a
\* session made with uses_token = true, no task has sent the DELETE
\* access-token request, and once sign_out, the expiration timer or the
\* expiry handling of set_user has run to its end, there is no active and no
\* persisted session.
C12_CallerTokenKept ==
  uses_token = JsTrue =>
    /\ ~RevokeSent
    /\ (Main.call = "sign_out" /\ Settled) => NoSession
    /\ TimerExpiryDone => NoSession
    /\ (SetUserWithExpired /\ Settled) => NoSession
\* a voluntary sign_out of such a session: cleared, logged-out fired, nothing
\* sent
C12_Witness ==
  /\ uses_token = JsTrue
  /\ Main.call = "sign_out"
  /\ Settled
  /\ NoSession
  /\ Happened("main", "logged-out")
  /\ Main.reqs = <<>>
\* the forced expiry of such a session by its timer
C12_WitnessTimer ==
  /\ uses_token = JsTrue
  /\ TimerExpiryDone
  /\ NoSession
  /\ Happened("timer", "session-expired")
  /\ tasks["timer"].reqs = <<>>

\* the same for _load_user(token, true), whatever the who-am-I call answers
\* (an expires_at already past, a 401, retries): no DELETE, and where expiry
\* handling ran no session is left
C12_LoadedTokenKept ==
  (Main.call = "load_user" /\ Main.ut = JsTrue) =>
    /\ ~RevokeSent
    /\ (Settled /\ Happened("main", "session-expired")) => NoSession
C12_WitnessLoaded ==
  /\ Main.call = "load_user"
  /\ Main.ut = JsTrue
  /\ Settled
  /\ Happened("main", "session-expired")
  /\ WhoAmIAnswered = {1}
  /\ NoSession

\* C13: sign_out destroys the local session.  Once sign_out() has settled
\* there is no active session and no entry under session_name, whatever the
\* revocation request was answered.
C13_SignOutClears ==
  (Main.call = "sign_out" /\ Settled) => NoSession
\* the revocation succeeded: cleared, logged-out fired
C13_RevokedThenCleared ==
  /\ Main.call = "sign_out"
  /\ Settled
  /\ NResp = 1
  /\ Status(1) = 200
  /\ NoSession
  /\ Happened("main", "logged-out")
\* the revocation was refused with a 403: sign_out resolved, the session with
\* its persisted copy is still there and logged-out did not fire
C13_RefusedThenKept ==
  /\ Main.call = "sign_out"
  /\ Settled
  /\ Main.reg = Ret(NoVal)
  /\ NResp = 1
  /\ Status(1) = 403
  /\ user = SessionB
  /\ getItem("session") = SessionB
  /\ ~Happened("main", "logged-out")
\* the revocation met a 5xx and its retry succeeded: still there
C13_RetriedThenKept ==
  /\ Main.call = "sign_out"
  /\ Settled
  /\ NResp = 2
  /\ Status(1) = 500
  /\ Status(2) = 200
  /\ user # NullUser

\* ------------------------------------------- claims on the expiration timer
\* no call and no timer callback is in flight
Quiescent == \A t \in TaskIds : Free(t)
\* C14: timer invariant.  At most one expiration timer is armed at any time,
\* and whenever the client rests with an active session that has an
\* expiration, exactly one is.
C14_OneTimer ==
  /\ BagCardinality(timers) <= 1
  /\ (Quiescent /\ user # NullUser /\ HasExpiration(user)) =>
       BagCardinality(timers) = 1
\* set_user replaced a session whose timer was armed: both timers are armed,
\* the earlier one for a session that is gone
C14_TwoTimers ==
  /\ Main.call = "set_user"
  /\ Settled
  /\ Main.reg = Ret(NoVal)
  /\ user = Main.arg
  /\ BagCardinality(timers) = 2
  /\ \E d \in BagToSet(timers) : d = SessionB.expiration - SKEW
  /\ \E d \in BagToSet(timers) : d = Main.arg.expiration - SKEW

\* ------------------------------------------ claims on the who-am-I retries
\* every request of the run went to the access-token endpoint to ask who the
\* token belongs to
OnlyWhoAmI ==
  /\ Len(Main.reqs) = NResp
  /\ \A i \in 1..NResp : Main.reqs[i].kind = "whoami"
\* the session the claims expect from the last response, for the token sent
LoadedSession ==
  LET r == Main.resps[NResp].v
  IN [id |-> r.voip_id, token |-> Main.reqs[NResp].auth,
      expiration |-> IF r.expires_at = Undef THEN Undef
                     ELSE Epoch + r.expires_at * 1000]
\* _load_user or init_user met one or more 429 and then a 2xx whose session
\* has not expired
WhoAmIRateLimitedThenOk ==
  /\ Main.call \in {"load_user", "init_user"}
  /\ options.handle_rate_limit
  /\ Settled
  /\ NResp >= 2
  /\ OnlyWhoAmI
  /\ RateLimitedThenOk
  /\ ~ExpiredAt(LoadedSession, NResp)

\* C15: the who-am-I call is retried on 429 like a resource operation.  When
\* the access-token endpoint answered 429 one or more times and then 2xx, the
\* call resolves and the session of the 2xx response is the active one.
C15_WhoAmIRetried ==
  WhoAmIRateLimitedThenOk =>
    /\ Main.reg.kind = "ret"
    /\ user = LoadedSession
\* 429 then 2xx: the session is installed by the retry, and the call rejects
\* with the 429 response all the same
C15_InstalledButRejected ==
  /\ WhoAmIRateLimitedThenOk
  /\ NResp = 2
  /\ user = LoadedSession
  /\ Main.reg.kind = "throw"
  /\ Main.reg.v.status = 429

\* --------------------------------------------- claims on terminal failures
\* the application's call is a resource operation whose last request was
\* answered with an HTTP failure, and the call has settled: no retry followed
\* that answer
TerminalFailure ==
  /\ Main.call \in Ops
  /\ Settled
  /\ NResp >= 1
  /\ Main.resps[NResp].v.k = "axios"
  /\ Status(NResp) # 0
\* call_api has thrown the failure of the last answer and the operation's
\* catch block has not run yet
FailureReachedOp ==
  /\ At("main", "op", "await")
  /\ Main.reg.kind = "throw"
  /\ Main.reg.v.k = "axios"
  /\ Main.reg.v.status # 0
\* the last callback invoked was the error listener, with the response of
\* the i-th answer
ErrorListenerSaw(i) ==
  /\ Main.events # <<>>
  /\ Main.events[Len(Main.events)] =
       [ev |-> "error", arg |-> Response(Main.resps[i].v)]

\* C16: a resource operation that ends with a non-retried HTTP failure, while
\* an error listener is registered, has shown that failure to the listener
\* before its own catch block ran, and rejects with that failure
C16_TerminalObserved ==
  /\ (Registered("error") /\ FailureReachedOp) => ErrorListenerSaw(NResp)
  /\ (Registered("error") /\ TerminalFailure) =>
       /\ ErrorListenerSaw(NResp)
       /\ RejectedWith(NResp)
\* a 403 is shown to the listener and rejects the operation
C16_Witness ==
  /\ Registered("error")
  /\ TerminalFailure
  /\ NResp = 1
  /\ Status(1) = 403
  /\ ErrorListenerSaw(1)
  /\ RejectedWith(1)
\* the attempts for a 5xx are used up: the last failure is shown and thrown
C16_WitnessExhausted ==
  /\ Registered("error")
  /\ TerminalFailure
  /\ options.handle_server_error = 1
  /\ NResp = 2
  /\ Status(2) \in ServerErrors
  /\ Len(Main.events) = 2
  /\ ErrorListenerSaw(2)
  /\ RejectedWith(2)
\* a 429 with rate-limit handling off is terminal at once
C16_WitnessRateLimitOff ==
  /\ Registered("error")
  /\ TerminalFailure
  /\ ~options.handle_rate_limit
  /\ NResp = 1
  /\ Status(1) = 429
  /\ ErrorListenerSaw(1)
  /\ RejectedWith(1)

\* --------------------------------------- operations that meet a 401 answer
ExpiredCallSteps == \E t \in TaskIds : CallApiExpired(t)

\* a client holding a session whose expiration was never recorded
\* (expiration_timeout is still 0), or one recorded so far ahead that set_user
\* persisted it and threw before arming a timer; the service may refuse a
\* request with a 401
InitExpiry ==
  /\ InitCommon
  /\ listeners = AllEvents
  /\ options = [DefaultOptions EXCEPT !.handle_server_error = 1]
  /\ \E held \in {SessionA, SessionFar} :
       /\ user = held
       /\ expiration_timeout =
            IF HasExpiration(held) THEN held.expiration ELSE Epoch
       /\ storage =
            [[tab |-> EmptyStore, browser |-> EmptyStore] EXCEPT
               ![Scope].session =
                  IF HasExpiration(held) THEN held ELSE NullUser]
  /\ timers = EmptyBag
  /\ uses_token \in {JsFalse, JsTrue}
  /\ server = [NoServer EXCEPT !.fail = {401, 403, 429, 500},
                               !.ras = {RaAbsent},
                               !.budget = MaxSignOutFail]

NextExpiry == StartOp \/ RetrySteps \/ ExpirySteps \/ ExpiredCallSteps
SpecExpiry == InitExpiry /\ [][NextExpiry]_vars

\* ---------------------------------------------- claims on a 401 at expiry
\* the i-th request of the call went through call_api and was answered with
\* a 401 at an instant the client counts as past the session's expiration
ExpiredUnauthorized(i) ==
  /\ i \in 1..NResp
  /\ Main.reqs[i].kind # "revoke"
  /\ Status(i) = 401
  /\ expiration_timeout < Main.resps[i].at + SKEW
\* the error listener received the i-th answer
ErrorListenerGot(i) ==
  \E j \in 1..Len(Main.events) :
    Main.events[j] = [ev |-> "error", arg |-> Response(Main.resps[i].v)]
\* no request went through call_api after the i-th
NotReissued(i) ==
  \A j \in (i + 1)..Len(Main.reqs) : Main.reqs[j].kind = "revoke"
\* the operation got {data: {}} from call_api and resolved with its fields
ResolvedEmpty ==
  /\ Main.reg.kind = "ret"
  /\ Main.reg.v.status = EmptyResp.status
  /\ Main.reg.v.rid = EmptyResp.rid

\* call_api has settled and the operation that awaited it has not resumed
CallApiSettled ==
  /\ At("main", "op", "await")
  /\ Main.reg.kind # "none"

\* C17: when a request sent through call_api meets a 401 while the session
\* counts as expired, the request is not sent again and the 401 is withheld
\* from the error listener; call_api settles with the session and its
\* persisted copy gone, the session-expired listener invoked, and an empty
\* data object as its result
C17_ExpiredUnauthorized ==
  \A i \in 1..NResp :
    (Main.call \in Ops /\ ExpiredUnauthorized(i)) =>
      /\ NotReissued(i)
      /\ ~ErrorListenerGot(i)
      /\ CallApiSettled =>
           /\ NoSession
           /\ Happened("main", "session-expired")
           /\ Main.reg = Ret(EmptyResp)
\* the 401 arrived, the revocation was accepted: everything the claim says
C17_HandledAsExpiry ==
  /\ Main.call \in Ops
  /\ Settled
  /\ ExpiredUnauthorized(1)
  /\ NResp = 2
  /\ Status(2) = 200
  /\ NoSession
  /\ Happened("main", "session-expired")
  /\ ~Happened("main", "error")
  /\ ResolvedEmpty
\* the 401 arrived, the revocation was refused with a 403: the operation
\* resolves empty and session-expired fires, yet the session is still held
\* and the error listener has seen the 403
C17_RefusedThenKept ==
  /\ Main.call \in Ops
  /\ Settled
  /\ ExpiredUnauthorized(1)
  /\ NResp = 2
  /\ Status(2) = 403
  /\ user = SessionA
  /\ Happened("main", "session-expired")
  /\ ErrorListenerGot(2)
  /\ ResolvedEmpty
\* a 401 while the recorded expiration is ahead is an ordinary failure
C17_UnexpiredUnauthorized ==
  /\ Main.call \in Ops
  /\ Settled
  /\ NResp = 1
  /\ Status(1) = 401
  /\ ~ExpiredUnauthorized(1)
  /\ user = SessionFar
  /\ ErrorListenerGot(1)
  /\ RejectedWith(1)

\* ------------------------------------------------ claims on the chosen store
\* sessionStorage and localStorage
TabStore == storage.tab
BrowserStore == storage.browser

\* C18: with session_scope 'tab' no step of the client modifies localStorage,
\* and with session_scope 'browser' no step modifies sessionStorage
C18_SingleStore ==
  [][/\ options.session_scope = "tab" => BrowserStore' = BrowserStore
     /\ options.session_scope = "browser" => TabStore' = TabStore]_vars
\* init_user under session_scope 'tab', facing a fragment with nothing in
\* localStorage, has left a state value there
C18_StateInLocalStorage ==
  /\ options.session_scope = "tab"
  /\ Main.call = "init_user"
  /\ Settled
  /\ BrowserStore.state \in StateValues
  /\ BrowserStore.session = NullUser
  /\ TabStore.state = ""
\* the session itself goes to the store session_scope names, and only there
C18_SessionInChosenStore ==
  /\ Main.call = "init_user"
  /\ Settled
  /\ user # NullUser
  /\ HasExpiration(user)
  /\ storage[options.session_scope].session = user
  /\ storage[IF options.session_scope = "tab" THEN "browser" ELSE "tab"].session
       = NullUser

\* ------------------------------------------- claims on init_user's result
InitUserSettled == Main.call = "init_user" /\ Settled

\* C19: when init_user completes, it has resolved true if this.user holds a
\* session and false if it holds none; it has not rejected while a session
\* is installed
C19_ReportsSession ==
  InitUserSettled =>
    /\ user # NullUser => Main.reg = Ret(TrueV)
    /\ user = NullUser => Main.reg.kind = "throw" \/ Main.reg = Ret(FalseV)
\* bootstrapped from the fragment: resolved true with the session installed
C19_Bootstrapped ==
  /\ InitUserSettled
  /\ Main.arg = NullUser
  /\ token = <<"Bearer", "T">>
  /\ NResp = 1
  /\ Status(1) = 200
  /\ user = LoadedSession
  /\ Main.reg = Ret(TrueV)
\* nothing stored and no fragment: resolved false without a session
C19_NothingToRestore ==
  /\ InitUserSettled
  /\ Main.arg = NullUser
  /\ location.hash = <<>>
  /\ user = NullUser
  /\ Main.reg = Ret(FalseV)
\* the who-am-I call met a 429 and its retry installed the session, yet
\* init_user rejected with the 429
C19_InstalledButRejected ==
  /\ InitUserSettled
  /\ NResp = 2
  /\ Status(1) = 429
  /\ Status(2) = 200
  /\ user = LoadedSession
  /\ RejectedWith(1)
\* a persisted session beyond the longest timer is installed by set_user,
\* which then throws: init_user rejects with the session in place
C19_RestoredButRejected ==
  /\ InitUserSettled
  /\ Main.arg = SessionFar
  /\ user = SessionFar
  /\ Main.reg = Throw(TypeErrorV)

\* ------------------------------------------- claims on the resent request
\* what a request asks the service for
Asked(r) == [method |-> r.method, query |-> r.query, body |-> r.body]
\* the i-th request follows a 429 answer: it is a rate-limit retry
AfterRateLimit(i) == i \in 2..Len(Main.reqs) /\ Status(i - 1) = 429

\* C20: every request a resource operation sends after a 429 has the method,
\* the query string and the body of the first request of the call
C20_SameRequest ==
  \A i \in 2..Len(Main.reqs) :
    (Main.call \in Ops /\ AfterRateLimit(i)) =>
      Asked(Main.reqs[i]) = Asked(Main.reqs[1])
\* get_list(uri, 25, 25) met a 429: the retry asks for limit and offset twice
C20_LimitSentTwice ==
  /\ Main.call = "get_list"
  /\ AfterRateLimit(2)
  /\ Main.reqs[1].query = <<[k |-> "limit", v |-> DEFAULT_LIMIT],
                            [k |-> "offset", v |-> DEFAULT_LIMIT]>>
  /\ Main.reqs[2].query = Main.reqs[1].query \o Main.reqs[1].query
\* create_item met a 429: the retry is the same post with the same body
C20_SamePost ==
  /\ Main.call = "create_item"
  /\ AfterRateLimit(2)
  /\ Asked(Main.reqs[2]) = [method |-> "post", query |-> <<>>, body |-> "data"]
  /\ Asked(Main.reqs[1]) = Asked(Main.reqs[2])

\* ------------------------------------- claims on _load_user and 5xx answers
\* every answer so far came from the access-token endpoint and was a 5xx
WhoAmIOnlyServerErrors ==
  /\ Main.call = "load_user"
  /\ NResp >= 1
  /\ \A i \in 1..Len(Main.reqs) : Main.reqs[i].kind = "whoami"
  /\ \A i \in 1..NResp : Status(i) \in ServerErrors
\* the _load_user invocation that sent the latest request
LoadUserWaiting ==
  /\ Len(Main.stack) >= 2
  /\ Main.stack[1].fn = "call_api"
  /\ Main.stack[2].fn = "load_user"

\* C21: while the access-token endpoint answers nothing but 5xx, _load_user
\* sends at most handle_server_error + 1 requests, the invocation that sent
\* the n-th request runs with _attempt = n, and once settled the call has
\* rejected with the last 5xx
C21_LoadUserBounded ==
  WhoAmIOnlyServerErrors =>
    /\ Len(Main.reqs) <= options.handle_server_error + 1
    /\ LoadUserWaiting => Main.stack[2].attempt = Len(Main.reqs)
    /\ Settled => RejectedWith(NResp)
\* handle_server_error is 1 and two 5xx were answered: a third request is out,
\* sent by an invocation whose _attempt is 1 again
C21_ThirdRequest ==
  /\ WhoAmIOnlyServerErrors
  /\ options.handle_server_error = 1
  /\ NResp = 2
  /\ Len(Main.reqs) = 3
  /\ LoadUserWaiting
  /\ Main.stack[2].attempt = 1
  /\ Main.stack[2].uses_token = JsNum(2)

\* -------------------------------------------------- claims on set_user
\* set_user was called with an expiration more than MAX_TIMEOUT past the
\* skewed deadline
SetUserBeyondMax ==
  /\ Main.call = "set_user"
  /\ Main.arg.expiration > 0
  /\ Main.arg.expiration - MAX_TIMEOUT > Now0 + SKEW
\* the armed timers due MAX_TIMEOUT after an instant of this run
ClampedTimers ==
  {d \in BagToSet(timers) : d >= Now0 + MAX_TIMEOUT /\ d <= now + MAX_TIMEOUT}

\* C22: set_user with an expiration beyond the longest timer resolves, leaves
\* the session active and persisted, and has armed one timer due
\* MAX_TIMEOUT ms later
C22_TimerClamped ==
  (SetUserBeyondMax /\ Settled) =>
    /\ Main.reg = Ret(NoVal)
    /\ user = Main.arg
    /\ getItem("session") = Main.arg
    /\ Cardinality(ClampedTimers) = 1
    /\ \A d \in ClampedTimers : CopiesIn(d, timers) = 1
\* what happens instead: the session is installed and persisted, set_user
\* rejects with a TypeError and no timer was armed for it
C22_ClampThrows ==
  /\ SetUserBeyondMax
  /\ Settled
  /\ Main.reg = Throw(TypeErrorV)
  /\ user = Main.arg
  /\ getItem("session") = Main.arg
  /\ expiration_timeout = Main.arg.expiration
  /\ ClampedTimers = {}

\* task t is about to run set_user for the session Entering(t), whose
\* computed delay d = expiration - now - SKEW is compared with 0 and
\* MAX_TIMEOUT without being computed
EnteringSetUser(t) ==
  /\ tasks[t].stack # <<>>
  /\ tasks[t].wait = "run"
  /\ tasks[t].stack[1].fn = "set_user"
  /\ tasks[t].stack[1].pc = "start"
Entering(t) == tasks[t].stack[1].sess
WithExpiration(s) == s.expiration # Undef /\ s.expiration # Epoch
DelayNegative(s) == s.expiration - SKEW < now
DelayZero(s) == s.expiration - SKEW = now
DelayWithinMax(s) ==
  s.expiration <= 0 \/ s.expiration - MAX_TIMEOUT <= now + SKEW
\* the step begins expired-session handling and leaves store and timers alone
HandledAtOnce(t) ==
  /\ tasks'[t].stack # <<>>
  /\ tasks'[t].stack[1].fn = "handle_expired_session"
  /\ storage' = storage
  /\ timers' = timers
\* the step persists s and arms one more timer, due when the delay is over
PersistedAndArmed(t, s) ==
  /\ tasks'[t].reg = Ret(NoVal)
  /\ storage' = [storage EXCEPT ![options.session_scope].session = s]
  /\ timers' = timers (+) SetToBag({s.expiration - SKEW})
\* the step neither persists nor arms
InstalledOnly(t) ==
  /\ tasks'[t].reg = Ret(NoVal)
  /\ storage' = storage
  /\ timers' = timers

\* C23 as claimed: a delay <= 0 is handled as expired at once, a delay > 0 is
\* persisted with one timer for that delay, no expiration arms no timer
C23_ThresholdInclusive ==
  [][\A t \in TaskIds :
       EnteringSetUser(t) =>
         LET s == Entering(t)
         IN /\ (WithExpiration(s) /\ (DelayNegative(s) \/ DelayZero(s)))
                 => HandledAtOnce(t)
            /\ (WithExpiration(s) /\ ~DelayNegative(s) /\ ~DelayZero(s))
                 => PersistedAndArmed(t, s)
            /\ ~WithExpiration(s) => InstalledOnly(t)]_vars
\* C23: set_user with a delay d < 0 begins expired-session handling at once
\* and neither persists the session nor arms a timer; with 0 <= d <=
\* MAX_TIMEOUT it persists the session and arms one timer with delay d; a
\* session without expiration (or with expiration 0) arms no timer
C23_Threshold ==
  [][\A t \in TaskIds :
       EnteringSetUser(t) =>
         LET s == Entering(t)
         IN /\ (WithExpiration(s) /\ DelayNegative(s)) => HandledAtOnce(t)
            /\ (WithExpiration(s) /\ ~DelayNegative(s) /\ DelayWithinMax(s))
                 => PersistedAndArmed(t, s)
            /\ ~WithExpiration(s) => InstalledOnly(t)]_vars
\* set_user met a session at exactly its skewed deadline: it is active and
\* persisted, with a timer of delay 0
C23_Witness ==
  /\ Main.call = "set_user"
  /\ Settled
  /\ now = Now0
  /\ Main.arg.expiration = Now0 + SKEW
  /\ Main.reg = Ret(NoVal)
  /\ user = Main.arg
  /\ getItem("session") = Main.arg
  /\ CopiesIn(Now0, timers) = 1
  /\ ~Happened("main", "session-expired")
\* one millisecond earlier the session is handled as expired
C23_WitnessExpired ==
  /\ Main.call = "set_user"
  /\ Settled
  /\ Main.arg.expiration = Now0 + SKEW - 1
  /\ getItem("session") # Main.arg
  /\ Happened("main", "session-expired")

\* ------------------------------------------ claims on timers and sign_out
SignOutSettled == Main.call = "sign_out" /\ Settled

\* C24: once a voluntary sign_out has completed, no expiration timer is armed
C24_TimerCancelled == SignOutSettled => timers = EmptyBag
\* sign_out revoked the token and cleared the session at Now0; the timer of
\* that session fired at its deadline all the same, sent a revocation of its
\* own and invoked the session-expired listener
C24_LateExpiry ==
  /\ SignOutSettled
  /\ NResp = 1
  /\ Status(1) = 200
  /\ Main.reqs[1].at = Now0
  /\ Happened("main", "logged-out")
  /\ user = NullUser
  /\ timers = EmptyBag
  /\ tasks["timer"].wait = "done"
  /\ Len(tasks["timer"].reqs) = 1
  /\ tasks["timer"].reqs[1].at = SessionB.expiration - SKEW
  /\ Happened("timer", "session-expired")
\* right after sign_out the timer of the session signed out is still armed
C24_StillArmed ==
  /\ SignOutSettled
  /\ Happened("main", "logged-out")
  /\ user = NullUser
  /\ now = Now0
  /\ CopiesIn(SessionB.expiration - SKEW, timers) = 1

\* ------------------------------ an expiring session with a call in flight
\* a client whose session reached its skewed deadline a millisecond ago: the
\* timer set_user armed is due and its callback has not run yet
InitCoincide ==
  /\ InitCommon
  /\ listeners = AllEvents
  /\ options = [DefaultOptions EXCEPT !.handle_server_error = 1]
  /\ user = SessionX
  /\ expiration_timeout = SessionX.expiration
  /\ timers = SetToBag({SessionX.expiration - SKEW})
  /\ storage = [[tab |-> EmptyStore, browser |-> EmptyStore] EXCEPT
                  ![Scope].session = SessionX]
  /\ uses_token \in {JsFalse, JsTrue}
  /\ server = [NoServer EXCEPT !.fail = {401, 403, 429, 500},
                               !.ras = {RaAbsent},
                               !.budget = MaxSignOutFail]

NextCoincide ==
  \/ StartOp
  \/ RetrySteps
  \/ ExpirySteps
  \/ ExpiredCallSteps
  \/ TimerFire
SpecCoincide == InitCoincide /\ [][NextCoincide]_vars

\* ------------------------------------- claims on the expiry notification
\* how many times the listener of ev was invoked, by whichever task
InvocationsBy(t, ev) ==
  Cardinality({i \in 1..Len(tasks[t].events) : tasks[t].events[i].ev = ev})
Invocations(ev) == InvocationsBy("main", ev) + InvocationsBy("timer", ev)
\* expired-session handling has begun in some task
ExpiryHandled ==
  \/ tasks["timer"].call = "timer"
  \/ \E i \in 1..NResp : ExpiredUnauthorized(i)

\* C25: the session-expired listener is invoked at most once for an expired
\* session, and exactly once when every task has come to rest after expiry
\* handling; the logged-out listener is not invoked
C25_OneNotification ==
  /\ Invocations("session-expired") <= 1
  /\ Invocations("logged-out") = 0
  /\ (Quiescent /\ ExpiryHandled) => Invocations("session-expired") = 1
\* the timer fired and the call in flight was answered with a 401: the
\* listener was invoked by both
C25_NotifiedTwice ==
  /\ Quiescent
  /\ Main.call \in Ops
  /\ ExpiredUnauthorized(1)
  /\ Happened("main", "session-expired")
  /\ Happened("timer", "session-expired")
  /\ Invocations("session-expired") = 2
  /\ Invocations("logged-out") = 0

\* -------------------------------------- claims on the anti-forgery report
\* init_user started without a persisted session and _oauth turned the
\* fragment down for its state
RedirectRejected ==
  /\ InitUserSettled
  /\ Main.arg = NullUser
  /\ FragmentRejected

\* C26: when _oauth turns a redirect down because the returned state differs
\* from the stored one, the error listener has been invoked and init_user
\* resolved false
C26_MismatchReported ==
  RedirectRejected =>
    /\ Happened("main", "error")
    /\ Main.reg = Ret(FalseV)
\* the mismatch made init_user resolve false, and no listener was invoked
C26_MismatchSilent ==
  /\ RedirectRejected
  /\ Registered("error")
  /\ storage.browser.state = "S2"
  /\ HashValue(location.hash, "state") = FragmentState
  /\ Main.reg = Ret(FalseV)
  /\ Main.events = <<>>

\* ------------------------------------------- 429 answers of any payload
\* a client holding a session; the service limits the rate with payloads
\* that carry Retry-After, carry @error.@rateLimit without it, or lack the
\* @rateLimit or @error object altogether
InitPayload ==
  /\ InitCommon
  /\ options = DefaultOptions
  /\ server = [NoServer EXCEPT !.fail = {429},
                               !.ras = {RaNoObj, RaAbsent, 0, 2},
                               !.items = <<1, 2>>]
  /\ listeners \in {{}, AllEvents}
  /\ uses_token = JsFalse
  /\ user = SessionA
  /\ expiration_timeout = Epoch
  /\ timers = EmptyBag
  /\ storage = [tab |-> EmptyStore, browser |-> EmptyStore]

SpecPayload == InitPayload /\ [][NextRetry]_vars

\* ------------------------------------- claims on the default rate-limit wait
\* the i-th answer is a 429 whose payload has no Retry-After to read
NoRetryAfter(i) ==
  /\ i \in 1..NResp
  /\ Status(i) = 429
  /\ Main.resps[i].v.ra \in {RaAbsent, RaNoObj}

\* C27: with rate-limit handling on, a 429 without a Retry-After value is
\* followed by the same operation one second later: the call does not settle
\* on such an answer, and the next request leaves DEFAULT_RETRY_AFTER seconds
\* after it
C27_DefaultWait ==
  \A i \in 1..NResp :
    (Main.call \in Ops /\ options.handle_rate_limit /\ NoRetryAfter(i)) =>
      /\ Settled => Len(Main.reqs) > i
      /\ Len(Main.reqs) > i =>
           Main.reqs[i + 1].at - Main.resps[i].at
             = DEFAULT_RETRY_AFTER * MS_PER_SECOND
\* the payload has @error.@rateLimit without the key: one second, then again
C27_KeyAbsent ==
  /\ Main.call \in Ops
  /\ Settled
  /\ NResp = 2
  /\ NoRetryAfter(1)
  /\ Main.resps[1].v.ra = RaAbsent
  /\ Main.reqs[2].at - Main.resps[1].at = DEFAULT_RETRY_AFTER * MS_PER_SECOND
  /\ ResolvedWith(2)
\* the payload has no @rateLimit object: reading Retry-After throws, the
\* operation rejects with a TypeError and sends nothing more
C27_ObjectAbsent ==
  /\ Main.call \in Ops
  /\ Settled
  /\ NResp = 1
  /\ NoRetryAfter(1)
  /\ Main.resps[1].v.ra = RaNoObj
  /\ Len(Main.reqs) = 1
  /\ Main.reg = Throw(TypeErrorV)

\* ---------------------------------------- claims on the two retry budgets
\* the 5xx answers among the first n
ServerErrorsAmong(n) ==
  Cardinality({i \in 1..n : i <= NResp /\ Status(i) \in ServerErrors})
\* the invocation of the operation that sent the request now awaited
OpWaiting ==
  /\ Main.wait = "net"
  /\ Len(Main.stack) >= 2
  /\ Main.stack[1].fn = "call_api"
  /\ Main.stack[2].fn = "op"

\* C28: within one resource call, whatever the order of 429 and 5xx answers,
\* the invocation that sends a request runs with _attempt = 1 + the number
\* of 5xx answered before, so a 429 re-issue leaves the counter alone and a
\* 5xx re-issue adds one; the requests that follow a 5xx are never more than
\* handle_server_error
C28_SeparateBudgets ==
  Main.call \in Ops =>
    /\ OpWaiting =>
         Main.stack[2].attempt = 1 + ServerErrorsAmong(Len(Main.reqs) - 1)
    /\ ServerErrorsAmong(Len(Main.reqs) - 1) <= options.handle_server_error
\* the one 5xx retry is used up and two 429 are still re-issued
C28_Witness ==
  /\ Main.call \in Ops
  /\ options.handle_rate_limit
  /\ options.handle_server_error = 1
  /\ NResp = 3
  /\ Status(1) = 429
  /\ Status(2) \in ServerErrors
  /\ Status(3) = 429
  /\ Len(Main.reqs) = 4
  /\ OpWaiting
  /\ Main.stack[2].attempt = 2
\* with no 5xx retry allowed, 429 answers are re-issued all the same
C28_WitnessRateOnly ==
  /\ Main.call \in Ops
  /\ options.handle_rate_limit
  /\ options.handle_server_error = 0
  /\ NResp = 3
  /\ \A i \in 1..3 : Status(i) = 429
  /\ Len(Main.reqs) = 4
  /\ OpWaiting
  /\ Main.stack[2].attempt = 1

\* --------------------------------- claims on when the error listener runs
\* C29: across one resource call the error listener is invoked at most
\* once, never for a call that resolves, and what it receives is the failure
\* the call rejects with
C29_ListenerOnlyTerminal ==
  Main.call \in Ops =>
    /\ InvocationsBy("main", "error") <= 1
    /\ (Settled /\ Main.reg.kind = "ret") =>
         InvocationsBy("main", "error") = 0
    /\ (Settled /\ Main.reg.kind = "throw") =>
         \A i \in 1..Len(Main.events) :
           Main.events[i].ev = "error" => Main.events[i].arg = Main.reg.v
\* a 429 was recovered by the retry and the call resolved, yet the listener
\* was given the 429
C29_RecoveredButReported ==
  /\ Main.call \in Ops
  /\ Settled
  /\ NResp = 2
  /\ Status(1) = 429
  /\ ResolvedWith(2)
  /\ ErrorListenerGot(1)
  /\ InvocationsBy("main", "error") = 1
\* two 5xx with one retry allowed: the listener was invoked for both
C29_ReportedTwice ==
  /\ Main.call \in Ops
  /\ Settled
  /\ options.handle_server_error = 1
  /\ NResp = 2
  /\ Status(1) \in ServerErrors
  /\ Status(2) \in ServerErrors
  /\ RejectedWith(2)
  /\ ErrorListenerGot(1)
  /\ ErrorListenerGot(2)
  /\ InvocationsBy("main", "error") = 2

\* ---------------------------------- claims on failures without a response
\* the i-th request failed without any HTTP response
NoResponse(i) ==
  /\ i \in 1..NResp
  /\ Main.resps[i].v.k = "axios"
  /\ Status(i) = 0

\* C30: a request that fails without a response is not sent again; once the
\* operation has settled, the error listener was invoked with that failure
\* and the operation rejected with it
C30_NetworkFailure ==
  \A i \in 1..NResp :
    (Main.call \in Ops /\ NoResponse(i)) =>
      /\ Len(Main.reqs) = i
      /\ Settled =>
           /\ Main.reg = Throw(Main.resps[i].v)
           /\ \E j \in 1..Len(Main.events) :
                Main.events[j] = [ev |-> "error", arg |-> Main.resps[i].v]
\* the request never reached the service: the operation rejected with a
\* TypeError of the client's own and the listener was not invoked
C30_TypeErrorInstead ==
  /\ Main.call \in Ops
  /\ Registered("error")
  /\ Settled
  /\ NResp = 1
  /\ NoResponse(1)
  /\ Len(Main.reqs) = 1
  /\ Main.reg = Throw(TypeErrorV)
  /\ Main.events = <<>>

\* ------------------------------------------------- the anti-forgery state
\* the state parameter at the end of the authorisation URL: none when
\* ignore_state is set, else what get _state answers
UrlState(stored) ==
  IF options.ignore_state THEN <<>> ELSE <<[k |-> "state", v |-> stored]>>
\* the application reads oauth_url (_get_oauth_url("", true)) and sends the
\* browser to it: get _state stores a fresh state when localStorage has none
ReadOauthUrl ==
  /\ NoneRunning
  /\ Fresh("main")
  /\ location.page = "app"
  /\ \E fresh \in StateValues :
       LET stored == StoredState(fresh)
       IN /\ storage' = IF options.ignore_state THEN storage
                        ELSE [storage EXCEPT !.browser.state = stored]
          /\ tasks' = [tasks EXCEPT !["main"] =
               [IdleTask EXCEPT
                  !.wait = "done", !.call = "oauth_url",
                  !.req = [NoReq EXCEPT !.kind = "authorize",
                                        !.method = "get",
                                        !.query = UrlState(stored)]]]
          /\ location' = [location EXCEPT !.page = "provider"]
  /\ UNCHANGED <<user, token, uses_token, expiration_timeout, id_token,
                 decoded_id_token, timers, envVars, now>>
\* the provider sends the browser back to the application with a token and
\* the parameters of the authorisation URL echoed in the fragment; the page
\* loads anew and constructs its client
ProviderRedirect ==
  /\ Main.call = "oauth_url"
  /\ location.page = "provider"
  /\ location' = [hash |-> FragmentWithoutState \o Main.req.query,
                  page |-> "callback"]
  /\ tasks' = [tasks EXCEPT !["main"] = IdleTask]
  /\ UNCHANGED <<user, token, uses_token, expiration_timeout, id_token,
                 decoded_id_token, storage, timers, envVars, now>>

\* a page that has not been to the provider yet: nothing in memory, perhaps a
\* session and a state left in storage by an earlier visit
InitOauth ==
  /\ user = NullUser
  /\ token = NoToken
  /\ uses_token = JsFalse
  /\ expiration_timeout = Epoch
  /\ id_token = ""
  /\ decoded_id_token = ""
  /\ timers = EmptyBag
  /\ now = Now0
  /\ tasks = [t \in TaskIds |-> IdleTask]
  /\ listeners = AllEvents
  /\ \E ign \in BOOLEAN :
       options = [DefaultOptions EXCEPT
                    !.handle_server_error = 1, !.ignore_state = ign]
  /\ \E saved \in {NullUser, SessionB}, state \in {""} \cup StateValues :
       storage = [[tab |-> EmptyStore, browser |-> EmptyStore] EXCEPT
                    ![Scope].session = saved, !.browser.state = state]
  /\ location = [hash |-> <<>>, page |-> "app"]
  /\ server = [NoServer EXCEPT !.fail = {401, 429, 500}, !.ras = {RaAbsent},
                               !.ids = {2}, !.expiries = ExpiresAts]

NextOauth ==
  \/ ReadOauthUrl
  \/ ProviderRedirect
  \/ StartInitUser
  \/ BootSteps
  \/ LoadUserSteps
  \/ SetUserSteps
  \/ ExpirySteps
  \/ CallApiSteps
  \/ NetSteps
SpecOauth == InitOauth /\ [][NextOauth]_vars

\* the browser is back from the provider with the echoed fragment
EchoedCallback == location.page = "callback" /\ HasBearerMarker(location.hash)
\* init_user ran on the page the provider came back to, with no persisted
\* session to restore, and settled
CallbackHandled ==
  /\ location.page = "callback"
  /\ Main.call = "init_user"
  /\ Main.arg = NullUser
  /\ Settled
C31_WitnessGenerated ==
  /\ location.page = "provider"
  /\ Main.call = "oauth_url"
  /\ Main.req.query = <<[k |-> "state", v |-> "S2"]>>
  /\ storage.browser.state = "S2"

\* ------------------------------------------------- the id token at sign-out
\* get decoded_id_token(): the field, else the cached copy of the current user
decoded_id_token_get ==
  IF decoded_id_token # "" THEN decoded_id_token
  ELSE IF user # NullUser /\ user.id \in Ids /\ getItem("dec")[user.id] # ""
       THEN getItem("dec")[user.id]
       ELSE ""
\* a client of the openid scope holding a session and its id token: in memory
\* and in the cache after _oauth, in the cache alone on a page loaded since
InitIdToken ==
  /\ token = NoToken
  /\ now = Now0
  /\ location = [hash |-> <<>>, page |-> "app"]
  /\ tasks = [t \in TaskIds |-> IdleTask]
  /\ listeners = AllEvents
  /\ uses_token = JsFalse
  /\ \E idso \in BOOLEAN :
       options = [DefaultOptions EXCEPT
                    !.handle_server_error = 1, !.openid = TRUE,
                    !.decode_id_token = TRUE, !.id_token_sign_out = idso]
  /\ \E held \in {SessionA, SessionB}, mem \in BOOLEAN :
       /\ user = held
       /\ expiration_timeout =
            IF HasExpiration(held) THEN held.expiration ELSE Epoch
       /\ timers = IF HasExpiration(held)
                   THEN SetToBag({held.expiration - SKEW}) ELSE EmptyBag
       /\ id_token = IF mem THEN "J" ELSE ""
       /\ decoded_id_token = IF mem THEN "claims" ELSE ""
       /\ storage =
            [[tab |-> EmptyStore, browser |-> EmptyStore] EXCEPT
               ![Scope].session =
                  IF HasExpiration(held) THEN held ELSE NullUser,
               ![Scope].idt = [NoIdTokens EXCEPT ![held.id] = "J"],
               ![Scope].dec = [NoIdTokens EXCEPT ![held.id] = "claims"]]
  /\ server = [NoServer EXCEPT !.fail = {403, 429}, !.ras = {RaAbsent},
                               !.budget = MaxSignOutFail]
NextIdToken ==
  \/ StartSignOut
  \/ ExpirySteps
  \/ NetSteps
  \/ TimerFireBetweenCalls
SpecIdToken == InitIdToken /\ [][NextIdToken]_vars

\* no cached id token, raw or decoded, is left in either store
NoIdTokenStored ==
  \A scope \in {"tab", "browser"} :
    storage[scope].idt = NoIdTokens /\ storage[scope].dec = NoIdTokens
\* C32: once sign_out has completed, id_token and decoded_id_token read as
\* null and storage holds no id-token entry, whether id_token_sign_out is on
\* or off.
C32_IdTokenDestroyed ==
  SignOutSettled =>
    /\ id_token_get = ""
    /\ decoded_id_token_get = ""
    /\ NoIdTokenStored
\* id_token_sign_out off: the revocation succeeded and post_sign_out cleared
\* the session, yet the client still answers the id token held in memory and
\* the cache still holds both copies
C32_TokenOutlivesSession ==
  /\ SignOutSettled
  /\ ~options.id_token_sign_out
  /\ NResp = 1
  /\ Status(1) = 200
  /\ user = NullUser
  /\ getItem("session") = NullUser
  /\ id_token_get = "J"
  /\ decoded_id_token_get = "claims"
  /\ ~NoIdTokenStored
\* the same on a page that held the token in the cache only: it reads as
\* null, and stays in storage
C32_CacheOutlivesSession ==
  /\ SignOutSettled
  /\ ~options.id_token_sign_out
  /\ Status(1) = 200
  /\ user = NullUser
  /\ id_token_get = ""
  /\ storage[Scope].idt[1] = "J"
\* id_token_sign_out on, revocation succeeded: everything is gone
C32_EndSessionClears ==
  /\ SignOutSettled
  /\ options.id_token_sign_out
  /\ location.page = "endsession"
  /\ user = NullUser
  /\ id_token_get = ""
  /\ decoded_id_token_get = ""
  /\ NoIdTokenStored

\* ------------------------------------- get_list_all of the earlier revisions
\* the two earlier revisions of the client kept beside index.js
EarlierFiles == {"part_001", "part_002"}
\* part_001: res["total"] < all.length && res["items"].length
\* part_002: res['total'] < all.length
\* (a comparison with undefined is false)
EarlierContinue(file, total, nAll, nPage) ==
  /\ total # Undef
  /\ total < nAll
  /\ file = "part_001" => nPage # 0

\* the application calls get_list_all of an earlier revision
StartEarlierListAll ==
  /\ NoneRunning
  /\ Fresh("main")
  /\ \E file \in EarlierFiles :
       tasks' = [tasks EXCEPT !["main"] =
         [IdleTask EXCEPT
            !.wait = "run", !.call = file,
            !.stack = <<[NoFrame EXCEPT !.fn = "earlier_get_list_all",
                                        !.pc = "loop", !.op = file]>>]]
  /\ UNCHANGED <<clientVars, envVars, now>>
\* the call of get_list(uri, 500, res ? res.offset + res.limit : 0) at the
\* head of the do-while body
EarlierGlaCall(t) ==
  /\ At(t, "earlier_get_list_all", "loop")
  /\ LET f == Top(t)
     IN tasks' = [tasks EXCEPT ![t] =
          Push(SetTop(@, [f EXCEPT !.pc = "await"]),
               [NoFrame EXCEPT !.fn = "earlier_get_list", !.pc = "try",
                               !.op = "get_list", !.limit = PAGE_LIMIT,
                               !.offset = NextOffset(f.flag, f.res)])]
  /\ UNCHANGED <<clientVars, envVars, now>>
\* get_list of the earlier revisions up to the request: limit and, unless it
\* is 0, offset go into the uri
EarlierGetListTry(t) ==
  /\ At(t, "earlier_get_list", "try")
  /\ LET f == Top(t)
         r == [kind |-> "list", method |-> "get", query |-> ListQuery(f),
               body |-> "", auth |-> phoenix_auth_headers(NoToken),
               account |-> user.id, at |-> now]
     IN tasks' = [tasks EXCEPT ![t] =
                    Send(SetTop(@, [f EXCEPT !.pc = "await"]), r)]
  /\ UNCHANGED <<clientVars, envVars, now>>
\* get_list of the earlier revisions after a 2xx: the four paging fields of
\* the response.  The listing endpoint of these runs answers every request,
\* so the catch block is not entered.
EarlierGetListDone(t) ==
  /\ At(t, "earlier_get_list", "await")
  /\ tasks[t].reg.kind = "ret"
  /\ LET tk == tasks[t]
         d == tk.reg.v
     IN tasks' = [tasks EXCEPT ![t] =
          PopWith(tk, Ret([NoVal EXCEPT
                             !.k = "list", !.hasItems = d.hasItems,
                             !.items = d.items, !.offset = d.offset,
                             !.total = d.total, !.limit = d.limit]))]
  /\ UNCHANGED <<clientVars, envVars, now>>
\* get_list_all after get_list settled: accumulate, then loop or return
EarlierGlaAfter(t) ==
  /\ At(t, "earlier_get_list_all", "await")
  /\ tasks[t].reg.kind # "none"
  /\ LET tk == tasks[t]
         f == Top(t)
         res == tk.reg.v
         all == Concat(f.all, res)
     IN tasks' = [tasks EXCEPT ![t] =
          IF tk.reg.kind = "throw" THEN PopWith(tk, tk.reg)
          ELSE IF /\ f.op = "part_001"
                  /\ ~res.hasItems
                  /\ res.total # Undef
                  /\ res.total < Len(all)
          THEN PopWith(tk, Throw(TypeErrorV))
          ELSE IF EarlierContinue(f.op, res.total, Len(all), Len(res.items))
          THEN [SetTop(tk, [f EXCEPT !.pc = "loop", !.all = all, !.res = res,
                                     !.flag = TRUE])
                  EXCEPT !.reg = NoReg]
          ELSE PopWith(tk, Ret(SyntheticPage(all)))]
  /\ UNCHANGED <<clientVars, envVars, now>>

\* a client holding a session, facing an honest listing endpoint of
\* 0..MaxItems items that answers every request
InitEarlier ==
  /\ InitCommon
  /\ options = DefaultOptions
  /\ listeners = AllEvents
  /\ uses_token = JsFalse
  /\ user = SessionA
  /\ expiration_timeout = Epoch
  /\ timers = EmptyBag
  /\ storage = [tab |-> EmptyStore, browser |-> EmptyStore]
  /\ \E T \in 0..MaxItems :
       server = [NoServer EXCEPT !.items = [i \in 1..T |-> i]]
NextEarlier ==
  \/ StartEarlierListAll
  \/ \E t \in TaskIds : EarlierGlaCall(t)
  \/ \E t \in TaskIds : EarlierGetListTry(t)
  \/ \E t \in TaskIds : Respond(t)
  \/ \E t \in TaskIds : EarlierGetListDone(t)
  \/ \E t \in TaskIds : EarlierGlaAfter(t)
SpecEarlier == InitEarlier /\ [][NextEarlier]_vars

EarlierListAllDone == Main.call \in EarlierFiles /\ Settled
\* C33: get_list_all of part_001 and of part_002 keeps fetching until the
\* accumulated count reaches the reported total or a page is empty: when it
\* settles against an honest endpoint, the last page was empty or the count
\* is at least the total, and the result is the whole collection, fetched in
\* pages of 500 at offsets 0, 500, 1000 (1200 items in 3 fetches).
C33_EarlierPagination ==
  EarlierListAllDone =>
    LET p == Main.resps[NResp].v
    IN /\ Len(p.items) = 0 \/ Len(Received(NResp)) >= p.total
       /\ Main.reg.kind = "ret"
       /\ Main.reg.v.items = server.items
       /\ \A i \in 1..Len(Main.reqs) : AskedPage(i)
       /\ Len(server.items) = 1200 => Len(Main.reqs) = 3
\* part_001: a collection of 1200 items, one fetch, 500 items returned
C33_StopsAfterFirstPage ==
  /\ Main.call = "part_001"
  /\ Settled
  /\ Len(server.items) = 1200
  /\ Len(Main.reqs) = 1
  /\ Main.resps[1].v.total = 1200
  /\ Main.reg = Ret(SyntheticPage([i \in 1..PAGE_LIMIT |-> i]))
\* part_002: the same
C33_StopsAfterFirstPageToo ==
  /\ Main.call = "part_002"
  /\ Settled
  /\ Len(server.items) = 1200
  /\ Len(Main.reqs) = 1
  /\ Main.resps[1].v.total = 1200
  /\ Main.reg = Ret(SyntheticPage([i \in 1..PAGE_LIMIT |-> i]))

\* ------------------------------------------------- forced expiry by timer
\* this step is the sign_out of a timer callback clearing the active session
ClearedByTimer ==
  /\ At("timer", "sign_out", "after")
  /\ user # NullUser
  /\ user' = NullUser
\* the skewed deadline of the active session has come
DeadlineReached == WithExpiration(user) /\ user.expiration <= now + SKEW
\* C34: no premature forced expiry.  A timer callback clears the active
\* session only if that session has an expiration E and the time is at least
\* E - 10000 ms; a session without expiration is never cleared by a timer.
C34_NoPrematureExpiry == [][ClearedByTimer => DeadlineReached]_vars
\* the timer armed for an earlier session fired at that session's deadline and
\* cleared its successor, which has no expiration
C34_ClearedWithoutExpiration ==
  /\ Main.call = "set_user"
  /\ Main.arg.expiration = Undef
  /\ Main.reg = Ret(NoVal)
  /\ tasks["timer"].wait = "done"
  /\ now = SessionB.expiration - SKEW
  /\ user = NullUser
  /\ \E i \in 1..Len(tasks["timer"].reqs) :
       /\ tasks["timer"].reqs[i].kind = "revoke"
       /\ tasks["timer"].reqs[i].auth = <<"Bearer", "N">>
  /\ Happened("timer", "session-expired")
\* the timer of the session it was armed for clears it at its deadline
C34_ClearedOnTime ==
  /\ Main.call = ""
  /\ tasks["timer"].wait = "done"
  /\ now = SessionB.expiration - SKEW
  /\ user = NullUser
  /\ \E i \in 1..Len(tasks["timer"].reqs) :
       tasks["timer"].reqs[i].auth = <<"Bearer", "B">>

\* ------------------------------------------ which 401 counts as an expiry
\* call_api of task t is about to handle a 401 answer
Facing401(t) ==
  /\ At(t, "call_api", "await")
  /\ tasks[t].reg.kind = "throw"
  /\ tasks[t].reg.v.status = 401
\* the active session has an expiration and its skewed deadline has passed
PastDeadline == user # NullUser /\ WithExpiration(user)
                /\ user.expiration < now + SKEW
\* the step hands the 401 to forced expiry handling
ExpiryHandlingBegins(t) ==
  /\ tasks'[t].stack # <<>>
  /\ tasks'[t].stack[1].fn = "handle_expired_session"
\* the step rethrows the 401 to the caller of call_api and leaves the session
\* and its persisted copy alone
Propagated(t) ==
  /\ tasks'[t].reg = tasks[t].reg
  /\ Len(tasks'[t].stack) = Len(tasks[t].stack) - 1
  /\ user' = user
  /\ storage' = storage
\* C35: call_api runs forced expiry handling on a 401 only if the active
\* session has an expiration E and now > E - 10000 ms; a 401 for a session
\* without expiration, for one whose expiration lies ahead, or with no session
\* at all is rethrown and leaves the session unchanged.
C35_ExpiryOnlyPastDeadline ==
  [][\A t \in TaskIds :
       Facing401(t) =>
         /\ ExpiryHandlingBegins(t) => PastDeadline
         /\ ~PastDeadline => Propagated(t)]_vars
\* a session without expiration met a 401: expiry handling revoked its token,
\* cleared it and invoked session-expired, and the operation resolved empty
C35_NoExpirationYetExpired ==
  /\ Main.call \in Ops
  /\ Settled
  /\ NResp >= 1
  /\ Status(1) = 401
  /\ expiration_timeout = Epoch
  /\ NResp = 2
  /\ Main.reqs[2].kind = "revoke"
  /\ Main.reqs[2].auth = SessionA.token
  /\ Status(2) = 200
  /\ user = NullUser
  /\ Happened("main", "session-expired")
  /\ ResolvedEmpty
\* a session whose expiration lies ahead met a 401: rethrown, session kept
C35_FutureExpirationPropagates ==
  /\ Main.call \in Ops
  /\ Settled
  /\ NResp >= 1
  /\ Status(1) = 401
  /\ user = SessionFar
  /\ NResp = 1
  /\ Main.reg.kind = "throw"
  /\ Main.reg.v.status = 401
  /\ Happened("main", "error")

\* ------------------------------------------------- uses_token and retries
\* a call that may run _load_user has settled; Main.ut is the uses_token
\* argument of the application (false when init_user calls _load_user)
LoadUserCallSettled == Main.call \in {"load_user", "init_user"} /\ Settled
\* the number of who-am-I requests of the call
WhoAmISent ==
  Cardinality({i \in 1..Len(Main.reqs) : Main.reqs[i].kind = "whoami"})
\* C36: once _load_user(token, uses_token) has settled, this.uses_token is
\* the uses_token argument of the original call, however many 429 or 5xx
\* retries there were; a session bootstrapped from the redirect that expiry
\* handling signs out has its token revoked with a DELETE.
C36_UsesTokenKept ==
  LoadUserCallSettled =>
    /\ uses_token = Main.ut
    /\ (Main.call = "init_user" /\ Happened("main", "session-expired")) =>
         \E i \in 1..Len(Main.reqs) : Main.reqs[i].kind = "revoke"
\* _load_user(token, false) was rate-limited once: the retry callback passed
\* the attempt number where uses_token goes, and the flag ends up as 1
C36_FlagIsAttempt ==
  /\ Main.call = "load_user"
  /\ Settled
  /\ Main.ut = JsFalse
  /\ WhoAmISent = 2
  /\ Status(1) = 429
  /\ Status(2) = 200
  /\ uses_token = JsNum(1)
  /\ user.token = <<"Bearer", "U">>
\* the same after a 5xx: the flag is the incremented attempt number
C36_FlagIsSecondAttempt ==
  /\ Main.call = "load_user"
  /\ Settled
  /\ Main.ut = JsFalse
  /\ WhoAmISent = 2
  /\ Status(1) = 500
  /\ Status(2) = 200
  /\ uses_token = JsNum(2)
\* bootstrap from the redirect, rate-limited once, session already expired:
\* expiry handling signed out without a DELETE
C36_NotRevoked ==
  /\ Main.call = "init_user"
  /\ Settled
  /\ Main.arg = NullUser
  /\ NResp = 2
  /\ Status(1) = 429
  /\ Status(2) = 200
  /\ Happened("main", "session-expired")
  /\ user = NullUser
  /\ \A i \in 1..Len(Main.reqs) : Main.reqs[i].kind = "whoami"
\* without a retry the flag is the argument
C36_KeptWithoutRetry ==
  /\ Main.call = "load_user"
  /\ Settled
  /\ WhoAmISent = 1
  /\ Status(1) = 200
  /\ Main.ut = JsTrue
  /\ uses_token = JsTrue

\* ------------------------------------------------- uses_token and a reload
\* an application that brings its own token calls _load_user(token, true)
StartLoadOwnToken ==
  /\ location.page = "app"
  /\ StartLoadUser
  /\ tasks'["main"].ut = JsTrue
\* the page is loaded again, at once or when the persisted session is about
\* to expire: the constructor makes a client with its initial fields, the
\* timers of the page before are gone, and storage is what it was.  One
\* reload is followed per behaviour.
Reload ==
  /\ location.page = "app"
  /\ Main.call = "load_user"
  /\ Settled
  /\ NoneRunning
  /\ Free("timer")
  /\ user' = NullUser
  /\ token' = NoToken
  /\ uses_token' = JsFalse
  /\ expiration_timeout' = Epoch
  /\ id_token' = ""
  /\ decoded_id_token' = ""
  /\ timers' = EmptyBag
  /\ tasks' = [t \in TaskIds |-> IdleTask]
  /\ location' = [hash |-> <<>>, page |-> "reloaded"]
  /\ \E later \in BOOLEAN :
       now' = IF later /\ HasExpiration(getItem("session"))
              THEN getItem("session").expiration ELSE now
  /\ UNCHANGED <<storage, envVars>>

\* a page with nothing in memory or in storage, whose application has a token
\* of its own that expires later on
InitReload ==
  /\ user = NullUser
  /\ token = NoToken
  /\ uses_token = JsFalse
  /\ expiration_timeout = Epoch
  /\ id_token = ""
  /\ decoded_id_token = ""
  /\ timers = EmptyBag
  /\ now = Now0
  /\ tasks = [t \in TaskIds |-> IdleTask]
  /\ listeners = AllEvents
  /\ options = [DefaultOptions EXCEPT !.handle_server_error = 1]
  /\ storage = [tab |-> EmptyStore, browser |-> EmptyStore]
  /\ location = [hash |-> <<>>, page |-> "app"]
  /\ server = [NoServer EXCEPT !.fail = {401, 429, 500}, !.ras = {RaAbsent},
                               !.ids = {2}, !.expiries = ExpiresAts]
NextReload ==
  \/ StartLoadOwnToken
  \/ Reload
  \/ StartInitUser
  \/ \E t \in TaskIds : InitUserStart(t)
  \/ \E t \in TaskIds : InitUserRestored(t)
  \/ \E t \in TaskIds : InitUserDone(t)
  \/ \E t \in TaskIds : OauthStart(t)
  \/ LoadUserSteps
  \/ SetUserSteps
  \/ ExpirySteps
  \/ CallApiSteps
  \/ NetSteps
SpecReload == InitReload /\ [][NextReload]_vars

\* init_user runs on the reloaded page and restores the session that
\* _load_user(token, true) persisted before the reload
RestoringOwnToken ==
  /\ location.page = "reloaded"
  /\ Main.call = "init_user"
  /\ Main.arg.token = <<"Bearer", "U">>
\* C37: uses_token survives persistence.  A session established with
\* uses_token = true, persisted and restored by init_user in a fresh client
\* is still treated as caller-supplied: the restoring client sends no DELETE
\* access-token request, and holds a truthy uses_token once the session is
\* restored.
C37_UsesTokenRestored ==
  RestoringOwnToken =>
    /\ \A i \in 1..Len(Main.reqs) : Main.reqs[i].kind # "revoke"
    /\ (Settled /\ user # NullUser) => Truthy(uses_token)
\* the page was reopened at the session's expiration: init_user restored it,
\* set_user found it expired, and sign_out revoked the caller's token
C37_CallerTokenRevoked ==
  /\ RestoringOwnToken
  /\ Settled
  /\ NResp = 1
  /\ Main.reqs[1].kind = "revoke"
  /\ Main.reqs[1].method = "delete"
  /\ Main.reqs[1].auth = <<"Bearer", "U">>
  /\ Status(1) = 200
  /\ user = NullUser
  /\ Happened("main", "session-expired")
\* the page was reopened at once: the session is restored and the flag is
\* the constructor's false
C37_FlagForgotten ==
  /\ RestoringOwnToken
  /\ Settled
  /\ Main.reg = Ret(TrueV)
  /\ user = Main.arg
  /\ uses_token = JsFalse
\* before the reload the established session held the flag as given
C37_Established ==
  /\ Main.call = "load_user"
  /\ Settled
  /\ uses_token = JsTrue
  /\ getItem("session") = user
  /\ user.token = <<"Bearer", "U">>

\* ------------------------------------------------- notification ordering
\* this step of task t invokes the session-expired listener
InvokesSessionExpired(t) ==
  /\ Len(tasks'[t].events) = Len(tasks[t].events) + 1
  /\ tasks'[t].events[Len(tasks'[t].events)].ev = "session-expired"
\* C38: whenever the session-expired listener is invoked, the local session
\* has been destroyed: user is null and the session_name entry is gone,
\* whatever became of the revocation attempted by the forced sign-out.
C38_DestroyedBeforeNotified ==
  [][\A t \in TaskIds : InvokesSessionExpired(t) => NoSession']_vars
\* the revocation of the forced sign-out was refused with a 403: the listener
\* has been invoked, and the session is still active and still persisted
C38_NotifiedWhileHeld ==
  /\ tasks["timer"].wait = "done"
  /\ Main.wait = "idle"
  /\ Happened("timer", "session-expired")
  /\ Len(tasks["timer"].resps) = 1
  /\ tasks["timer"].resps[1].v.status = 403
  /\ user = SessionB
  /\ getItem("session") = SessionB
\* the revocation was accepted: the listener found the session destroyed
C38_NotifiedAfterDestroyed ==
  /\ tasks["timer"].wait = "done"
  /\ Main.wait = "idle"
  /\ Happened("timer", "session-expired")
  /\ Len(tasks["timer"].resps) = 1
  /\ tasks["timer"].resps[1].v.status = 200
  /\ NoSession

\* ------------------------------------------------- storage and memory
\* C39: in every quiescent state the session persisted under session_name is
\* absent or equal to the active session in memory; after a new session has
\* replaced an old one, storage does not still hold the old one.
C39_StorageMatchesMemory ==
  Quiescent => (getItem("session") = NullUser \/ getItem("session") = user)
\* set_user installed a session without expiration over a persisted one:
\* nothing was written, storage still holds the session that was replaced
C39_OldSessionKept ==
  /\ Main.call = "set_user"
  /\ Settled
  /\ Quiescent
  /\ Main.arg.expiration = Undef
  /\ Main.reqs = <<>>
  /\ tasks["timer"].wait = "idle"
  /\ user = Main.arg
  /\ getItem("session") = SessionB
\* set_user installed a session with an expiration ahead: storage holds it
C39_NewSessionPersisted ==
  /\ Main.call = "set_user"
  /\ Settled
  /\ Quiescent
  /\ Main.arg.expiration = Now0 + SKEW + 1
  /\ user = Main.arg
  /\ getItem("session") = user
====
